---- MODULE Spec2Model ----
(***************************************************************************)
(* A model of fakeshadow/dns-proxy: the DNS-over-TLS pipelining engine     *)
(* (src/proxy/tls.rs), the answer cache (src/cache.rs), the wire codec     *)
(* (src/dns.rs) and the dispatcher (src/app.rs).                           *)
(*                                                                         *)
(* Bytes are naturals 0..255, byte strings are sequences of bytes, Rust    *)
(* Option<T> is a sequence of length at most one (<<>> is None, <<v>> is   *)
(* Some(v)).                                                               *)
(***************************************************************************)
EXTENDS Integers, Sequences, FiniteSets, TLC

VARIABLES
    \* ---- TlsContext (tls.rs:99-105)
    len,          \* Option<usize>: the expected length of the frame being read
    buf_read,     \* bytes read from the stream and not yet decoded
    buf_write,    \* bytes encoded and not yet written to the stream
    queue,        \* VecDeque<oneshot::Sender>: the sinks awaiting a reply
    rx,           \* the mpsc channel of (request bytes, sink), oldest first
    \* ---- the supervisor task and the proxy handle
    pc,           \* where the supervisor task of try_from_uri stands
    tx_alive,     \* whether a TlsProxy (the mpsc::Sender) is still alive
    sink,         \* per oneshot channel: what its receiver observes
    \* ---- the TLS stream and the upstream behind it
    stream,       \* "none" | "up" | "broken"
    up_in,        \* bytes written to the stream, not yet parsed by the upstream
    down,         \* bytes the upstream sent, not yet read by the engine
    \* ---- history of the latest connection (observers only); it is kept
    \* until the engine next encodes a message or fails to connect
    subs,         \* sinks encoded for this connection, in order
    sentFrames,   \* payloads of the frames the upstream sent on it, in order
    delivLog,     \* <<sink, bytes>> pairs handed to tx.send on it, in order
    recov,        \* Option<sink>: the sink encoded by wait_for_reconnect
    \* ---- Cache (cache.rs:13-16) and its LowResTimer (cache.rs:68-71)
    inner,        \* HashMap<String, (DnsRecord, Instant)>, a function
    time,         \* the Instant the ticker last stored, in seconds
    \* ---- App (app.rs:20-24)
    run,          \* where App::run stands: "running", "panicked" or "hung"
                  \* in forward, or the io::ErrorKind it returned
    tasks,        \* the tasks spawned by forward, in the order of arrival
    \* ---- history (observers only)
    stored,       \* the calls of Cache::set that returned, in order
    last          \* Option: the latest call of Cache::get that returned: its
                  \* argument, its result, the timer's value and how many
                  \* calls of Cache::set had returned before it
VARIABLES
    \* ---- one use of the codec (dns.rs): a decode, or an encode then decode
    codecIn,      \* what the codec is given: the bytes, or the packet
    codecOut,     \* Option: what it produced
    \* ---- UdpProxy (proxy/udp.rs:12-15) and the calls of proxy under way
    permit,       \* the permits the Semaphore has available
    waiting,      \* the calls parked in permit.acquire()
    at,           \* per await after acquire: the calls parked there
    \* ---- one call of udp_resolve (proxy/udp.rs:75-91)
    resolve,      \* where it stands: "send", "recv", or "done"
    retry,        \* its local retry
    sends,        \* observer: the datagrams socket.send has sent, in order
    waited,       \* observer: seconds the pending timeout has run
    elapsed,      \* observer: seconds since the first send
    resolved      \* Option: what the loop ended with
VARIABLES
    \* ---- App::try_from_config choosing the upstream (app.rs:46-65)
    upstream_addr, \* Config::upstream_addr: the kinds of its entries, in order
    iter,          \* how many entries try_iter has taken from its iterator
    err,           \* try_iter's local err: Option, the entry whose error it holds
    constructed,   \* observer: the constructor calls made, in order
    chosen         \* Option: what try_iter returned

tlsVars == <<len, buf_read, buf_write, queue, rx, pc, tx_alive, sink, stream,
             up_in, down, subs, sentFrames, delivLog, recov>>

appVars == <<inner, time, run, tasks, stored, last>>

codecVars == <<codecIn, codecOut>>

permitVars == <<permit, waiting, at>>

resolveVars == <<resolve, retry, sends, waited, elapsed, resolved>>

udpVars == <<permitVars, resolveVars>>

startVars == <<upstream_addr, iter, err, constructed, chosen>>

vars == <<tlsVars, appVars, codecVars, udpVars, startVars>>

-----------------------------------------------------------------------------
(* Bounds of the model *)

\* the number of proxy() calls made in one behaviour
MaxSubs == 2
\* the longest request or response payload, in bytes
MaxPayload == 1
\* the capacity of the submission channel in the model (256 in tls.rs:71)
ChanCap == 1

-----------------------------------------------------------------------------
(* Bytes and byte strings *)

None == <<>>
Some(v) == <<v>>

\* the byte values response payloads are built from
ByteVals == {0}

RECURSIVE SeqsUpTo(_, _)
SeqsUpTo(S, n) ==
    IF n = 0 THEN {<<>>}
    ELSE LET shorter == SeqsUpTo(S, n - 1)
         IN  shorter \cup {Append(s, x) : s \in {t \in shorter : Len(t) = n - 1}, x \in S}

Payloads == SeqsUpTo(ByteVals, MaxPayload)
\* a request is never empty here; its bytes do not matter to the engine
ReqPayloads == {[i \in 1..n |-> 1] : n \in 1..MaxPayload}

\* the element of a one-element set; The({F(x) : x \in {e}}) is F(e) with e
\* evaluated once
The(S) == CHOOSE x \in S : TRUE

Drop(s, n) == SubSeq(s, n + 1, Len(s))
Take(s, n) == SubSeq(s, 1, n)
Range(s) == {s[i] : i \in 1..Len(s)}

\* u16::to_be_bytes of (n as u16)
U16ToBe(n) == <<(n % 65536) \div 256, n % 256>>
\* u16::from_be_bytes
U16FromBe(b) == b[1] * 256 + b[2]

Sinks == 1..MaxSubs

-----------------------------------------------------------------------------
(* TlsContext: the pure part of the engine (tls.rs:107-171) *)

\* the context as a value: the four fields reset, encode and decode touch
Ctx == [len |-> len, buf_read |-> buf_read, buf_write |-> buf_write, queue |-> queue]

\* TlsContext::new (tls.rs:108-116)
NewCtx == [len |-> None, buf_read |-> <<>>, buf_write |-> <<>>, queue |-> <<>>]

\* reset that forgets queue.clear()
reset_keepQueue(c) == [c EXCEPT !.len = None, !.buf_read = <<>>, !.buf_write = <<>>]

\* TlsContext::reset (tls.rs:118-123)
reset(c) == [len |-> None, buf_read |-> <<>>, buf_write |-> <<>>, queue |-> <<>>]

\* encode that forgets the length prefix
encode_noPrefix(c, msg) ==
    [c EXCEPT !.buf_write = @ \o msg[1], !.queue = Append(@, msg[2])]

\* TlsContext::encode (tls.rs:163-171); msg = <<request bytes, sink>>
encode(c, msg) ==
    [c EXCEPT !.buf_write = @ \o U16ToBe(Len(msg[1])) \o msg[1],
              !.queue = Append(@, msg[2])]

\* decodeStep that pops the newest sink (pop_back) instead of the oldest
decodeStep_popBack(d) ==
    IF d.len # None /\ Len(d.buf_read) >= d.len[1]
    THEN IF d.queue = <<>>
         THEN [d EXCEPT !.buf_read = Drop(@, d.len[1]), !.panic = TRUE, !.more = FALSE]
         ELSE [d EXCEPT !.buf_read = Drop(@, d.len[1]),
                        !.queue = Take(@, Len(@) - 1),
                        !.out = Append(@, <<d.queue[Len(d.queue)], Take(d.buf_read, d.len[1])>>),
                        !.len = None]
    ELSE IF d.len = None /\ Len(d.buf_read) > 2
    THEN [d EXCEPT !.len = Some(U16FromBe(Take(d.buf_read, 2))),
                   !.buf_read = Drop(@, 2)]
    ELSE [d EXCEPT !.more = FALSE]

\* One turn of the loop of TlsContext::decode (tls.rs:146-159) on
\* d = [len, buf_read, queue, out, panic]: out collects the <<sink, bytes>>
\* pairs handed to tx.send, panic is queue.pop_front().unwrap() on an empty
\* queue.  The result's field more tells whether the loop goes round again.
decodeStep(d) ==
    IF d.len # None /\ Len(d.buf_read) >= d.len[1]
    THEN IF d.queue = <<>>
         THEN [d EXCEPT !.buf_read = Drop(@, d.len[1]), !.panic = TRUE, !.more = FALSE]
         ELSE [d EXCEPT !.buf_read = Drop(@, d.len[1]),
                        !.queue = Tail(@),
                        !.out = Append(@, <<Head(d.queue), Take(d.buf_read, d.len[1])>>),
                        !.len = None]
    ELSE IF d.len = None /\ Len(d.buf_read) > 2
    THEN [d EXCEPT !.len = Some(U16FromBe(Take(d.buf_read, 2))),
                   !.buf_read = Drop(@, 2)]
    ELSE [d EXCEPT !.more = FALSE]

\* TlsContext::decode (tls.rs:144-161)
RECURSIVE decodeLoop(_)
decodeLoop(d) ==
    The({IF e.more THEN decodeLoop(e) ELSE e : e \in {decodeStep(d)}})

decode(c) ==
    decodeLoop([len |-> c.len, buf_read |-> c.buf_read, queue |-> c.queue,
                out |-> <<>>, panic |-> FALSE, more |-> TRUE])

\* TlsContext::try_read (tls.rs:125-135) for one readiness event: the stream
\* yields the bytes got (then would-block) or, when eof, the bytes got and
\* then Ok(0) or an error.  The result carries the context, the deliveries,
\* and whether the call panicked or returned Err.
try_read(c, got, eof) ==
    The({[ctx |-> [c EXCEPT !.len = d.len, !.buf_read = d.buf_read, !.queue = d.queue],
          out |-> d.out,
          panic |-> d.panic,
          err |-> eof /\ ~d.panic] :
         d \in {IF got = <<>>
                THEN [len |-> c.len, buf_read |-> c.buf_read, queue |-> c.queue,
                      out |-> <<>>, panic |-> FALSE, more |-> FALSE]
                ELSE decode([c EXCEPT !.buf_read = @ \o got])}})

\* TlsContext::try_write (tls.rs:137-142) for one readiness event: k bytes
\* are accepted by the stream, or the write fails and the buffer is cleared.
try_write(c, k, fails) ==
    IF fails
    THEN [ctx |-> [c EXCEPT !.buf_write = <<>>], written |-> <<>>, err |-> TRUE]
    ELSE [ctx |-> [c EXCEPT !.buf_write = Drop(@, k)],
          written |-> Take(c.buf_write, k), err |-> FALSE]

-----------------------------------------------------------------------------
(* The oneshot channels and the supervisor task (tls.rs:76-93, 237-245) *)

Idle == [st |-> "idle", val |-> <<>>, n |-> 0]

\* the sinks the messages of a channel content carry
ChanSinks(ch) == {ch[i][2] : i \in 1..Len(ch)}

\* What the receivers observe after a step of the engine: tx.send(bytes) for
\* every pair of out (tls.rs:150), and channel-closed for every waiting
\* receiver whose Sender no longer exists in the FIFO or in the channel
\* (a dropped oneshot::Sender; proxy returns Err at tls.rs:242).
Settle(sk, out, owned) ==
    LET hits(s) == {k \in 1..Len(out) : out[k][1] = s}
        latest(s) == CHOOSE k \in hits(s) : \A j \in hits(s) : j <= k
        sent == [s \in Sinks |->
                    IF hits(s) = {} THEN sk[s]
                    ELSE [st |-> "ok", val |-> out[latest(s)][2],
                          n |-> sk[s].n + Cardinality(hits(s))]]
    IN  [s \in Sinks |->
            IF sent[s].st = "waiting" /\ s \notin owned
            THEN [sent[s] EXCEPT !.st = "err"]
            ELSE sent[s]]

\* the Receiver is dropped with the task: tx.send(..).await of every blocked
\* caller returns Err (tls.rs:241)
SendFails(sk, closed) ==
    [s \in Sinks |->
        IF closed /\ sk[s].st = "sending"
        THEN [st |-> "err", val |-> <<>>, n |-> 0]
        ELSE sk[s]]

\* The outcome of an engine step as a value: the context c, the deliveries
\* out, the channel content ch, the position p, whether the stream is
\* dropped, and the bytes taken from (n) and given to (written) the stream.
Outcome(c, out, ch, p, drop, n, written) ==
    [ctx |-> c, out |-> out, rx |-> ch, pc |-> p, drop |-> drop, n |-> n,
     written |-> written]

\* the supervisor task ends (return at tls.rs:80 or :83, or a panic): the
\* context, the receiver and the stream are dropped with all they hold
Gone(out, p) == Outcome(NewCtx, out, <<>>, p, TRUE, 0, <<>>)

\* pipeline_io returned Err (tls.rs:80-82): the stream is dropped and
\* wait_for_reconnect resets the context before it awaits the channel
\* (tls.rs:220-222)
Failed(c, out) == Outcome(reset(c), out, rx, "wait_reconnect", TRUE, 0, <<>>)

\* the variables after an engine step with outcome o
Engine(o) ==
    /\ len' = o.ctx.len
    /\ buf_read' = o.ctx.buf_read
    /\ buf_write' = o.ctx.buf_write
    /\ queue' = o.ctx.queue
    /\ rx' = o.rx
    /\ pc' = o.pc
    /\ sink' = SendFails(Settle(sink, o.out, Range(o.ctx.queue) \cup ChanSinks(o.rx)),
                       o.pc \in {"done", "panicked"})
    /\ stream' = IF o.drop THEN "none" ELSE stream
    /\ up_in' = IF o.drop THEN <<>> ELSE up_in \o o.written
    /\ down' = IF o.drop THEN <<>> ELSE Drop(down, o.n)
    /\ UNCHANGED tx_alive

\* the head of the second loop of pipeline_io (tls.rs:200-207): with nothing
\* to read and nothing to write the function returns Ok and the task ends
Drained(c) == c.queue = <<>> /\ c.buf_write = <<>>

\* Cache::new (cache.rs:19-24) with LowResTimer::new (cache.rs:74-86), the
\* loop of App::run about to start (app.rs:30-32); seconds are counted from
\* the Instant the timer is created with
AppNew ==
    /\ inner = [n \in {} |-> 0]
    /\ time = 0
    /\ run = "running"
    /\ tasks = <<>>
    /\ stored = <<>>
    /\ last = None

\* the codec before any use
CodecNew ==
    /\ codecIn = <<>>
    /\ codecOut = None

\* Semaphore::new(64) (proxy/udp.rs:21)
Permits == 64

\* the awaits of UdpProxy::proxy after the acquire (proxy/udp.rs:30-37)
Awaits == <<"bind", "connect", "send", "recv">>

\* UdpProxy::try_from_addr (proxy/udp.rs:18-23) with no call of proxy under
\* way, and udp_resolve about to enter its loop (proxy/udp.rs:75-79)
UdpNew ==
    /\ permit = Permits
    /\ waiting = 0
    /\ at = [k \in DOMAIN Awaits |-> 0]
    /\ resolve = "send"
    /\ retry = 0
    /\ sends = <<>>
    /\ waited = 0
    /\ elapsed = 0
    /\ resolved = None

\* the engine before its first connection
TlsNew ==
    /\ len = None /\ buf_read = <<>> /\ buf_write = <<>> /\ queue = <<>>
    /\ rx = <<>>
    /\ pc = "connecting"
    /\ tx_alive = TRUE
    /\ sink = [s \in Sinks |-> Idle]
    /\ stream = "none" /\ up_in = <<>> /\ down = <<>>
    /\ subs = <<>> /\ sentFrames = <<>> /\ delivLog = <<>>
    /\ recov = None

\* try_iter about to start on an upstream_addr of one UDP entry
\* (app.rs:46, 117)
StartNew ==
    /\ upstream_addr = <<"Udp">>
    /\ iter = 0
    /\ err = None
    /\ constructed = <<>>
    /\ chosen = None

InitTls ==
    /\ TlsNew
    /\ AppNew
    /\ CodecNew
    /\ UdpNew
    /\ StartNew

\* the callers blocked in tx.send(..).await on a full channel
Blocked == {s \in Sinks : sink[s].st = "sending"}

\* Submit whose send fails on a full channel instead of blocking (try_send)
Submit_failsWhenFull(s, p) ==
    /\ tx_alive
    /\ sink[s].st = "idle"
    /\ \A t \in Sinks : t < s => sink[t].st # "idle"
    /\ IF pc \in {"done", "panicked"} \/ Len(rx) >= ChanCap \/ Blocked # {}
       THEN /\ sink' = [sink EXCEPT ![s].st = "err"]
            /\ rx' = rx
       ELSE /\ sink' = [sink EXCEPT ![s].st = "waiting"]
            /\ rx' = Append(rx, <<p, s>>)
    /\ UNCHANGED <<len, buf_read, buf_write, queue, pc, tx_alive, stream, up_in,
                   down, subs, sentFrames, delivLog, recov>>
    /\ UNCHANGED <<appVars, codecVars, udpVars, startVars>>

\* TlsProxy::proxy (tls.rs:238-244): the oneshot channel is created and the
\* message sent; a closed channel fails the caller, a full one (or one with
\* earlier callers queued for a slot) blocks it with its message, kept in
\* val until the send completes.  Sinks are numbered in the order of the
\* calls, which is the order their messages enter the channel.
Submit(s, p) ==
    /\ tx_alive
    /\ sink[s].st = "idle"
    /\ \A t \in Sinks : t < s => sink[t].st # "idle"
    /\ IF pc \in {"done", "panicked"}
       THEN /\ sink' = [sink EXCEPT ![s].st = "err"]
            /\ rx' = rx
       ELSE IF Len(rx) >= ChanCap \/ Blocked # {}
       THEN /\ sink' = [sink EXCEPT ![s] = [st |-> "sending", val |-> p, n |-> 0]]
            /\ rx' = rx
       ELSE /\ sink' = [sink EXCEPT ![s].st = "waiting"]
            /\ rx' = Append(rx, <<p, s>>)
    /\ UNCHANGED <<len, buf_read, buf_write, queue, pc, tx_alive, stream, up_in,
                   down, subs, sentFrames, delivLog, recov>>
    /\ UNCHANGED <<appVars, codecVars, udpVars, startVars>>

\* tx.send(..).await of a blocked caller completes (tls.rs:241): the engine
\* has taken a message out of the channel and the caller is the first of
\* those queued for the slot
Unblock(s) ==
    /\ s \in Blocked
    /\ \A t \in Blocked : s <= t
    /\ Len(rx) < ChanCap
    /\ sink' = [sink EXCEPT ![s] = [st |-> "waiting", val |-> <<>>, n |-> 0]]
    /\ rx' = Append(rx, <<sink[s].val, s>>)
    /\ UNCHANGED <<len, buf_read, buf_write, queue, pc, tx_alive, stream, up_in,
                   down, subs, sentFrames, delivLog, recov>>
    /\ UNCHANGED <<appVars, codecVars, udpVars, startVars>>

\* the App, and with it the TlsProxy and its mpsc::Sender, is dropped; a
\* call under way borrows the TlsProxy, so none is blocked in send
DropProxy ==
    /\ tx_alive
    /\ Blocked = {}
    /\ tx_alive' = FALSE
    /\ UNCHANGED <<len, buf_read, buf_write, queue, rx, pc, sink, stream, up_in,
                   down, subs, sentFrames, delivLog, recov>>
    /\ UNCHANGED <<appVars, codecVars, udpVars, startVars>>

\* connect(..) returns Ok(stream) (tls.rs:78-80): pipeline_io starts
ConnectOk ==
    /\ pc = "connecting"
    /\ pc' = "io"
    /\ stream' = "up"
    /\ up_in' = <<>>
    /\ down' = <<>>
    /\ UNCHANGED <<len, buf_read, buf_write, queue, rx, tx_alive, sink, subs,
                   sentFrames, delivLog, recov>>
    /\ UNCHANGED <<appVars, codecVars, udpVars, startVars>>

\* connect(..) returns Err (tls.rs:86-90): reset, then sleep one second
ConnectErr ==
    /\ pc = "connecting"
    /\ Engine(Outcome(reset(Ctx), <<>>, rx, "sleep", FALSE, 0, <<>>))
    /\ subs' = <<>>
    /\ sentFrames' = <<>>
    /\ delivLog' = <<>>
    /\ UNCHANGED recov
    /\ UNCHANGED <<appVars, codecVars, udpVars, startVars>>

\* the sleep of tls.rs:89 is over
Wake ==
    /\ pc = "sleep"
    /\ pc' = "connecting"
    /\ UNCHANGED <<len, buf_read, buf_write, queue, rx, tx_alive, sink, stream,
                   up_in, down, subs, sentFrames, delivLog, recov>>
    /\ UNCHANGED <<appVars, codecVars, udpVars, startVars>>

\* wait_for_reconnect (tls.rs:222): rx.recv() yields a message, which is
\* encoded, or None when every sender is gone, which ends the task
WaitRecv ==
    /\ pc = "wait_reconnect"
    /\ rx # <<>> \/ ~tx_alive
    /\ Engine(IF rx # <<>>
              THEN Outcome(encode(Ctx, Head(rx)), <<>>, Tail(rx), "connecting",
                           FALSE, 0, <<>>)
              ELSE Gone(<<>>, "done"))
    /\ subs' = IF rx # <<>> THEN <<Head(rx)[2]>> ELSE subs
    /\ sentFrames' = IF rx # <<>> THEN <<>> ELSE sentFrames
    /\ delivLog' = IF rx # <<>> THEN <<>> ELSE delivLog
    /\ recov' = IF rx # <<>> THEN Some(Head(rx)[2]) ELSE recov
    /\ UNCHANGED <<appVars, codecVars, udpVars, startVars>>

\* first loop of pipeline_io, SelectOutput::A(Some(msg)) (tls.rs:183)
IoRecv ==
    /\ pc = "io"
    /\ rx # <<>>
    /\ Engine(Outcome(encode(Ctx, Head(rx)), <<>>, Tail(rx), "io", FALSE, 0, <<>>))
    /\ subs' = Append(subs, Head(rx)[2])
    /\ UNCHANGED <<sentFrames, delivLog, recov>>
    /\ UNCHANGED <<appVars, codecVars, udpVars, startVars>>

\* first loop of pipeline_io, SelectOutput::A(None) (tls.rs:195): break, and
\* the second loop starts with its check at tls.rs:200-207
IoClosed ==
    /\ pc = "io"
    /\ rx = <<>>
    /\ ~tx_alive
    /\ Engine(IF Drained(Ctx) THEN Gone(<<>>, "done")
              ELSE Outcome(Ctx, <<>>, rx, "drain", FALSE, 0, <<>>))
    /\ UNCHANGED <<subs, sentFrames, delivLog, recov>>
    /\ UNCHANGED <<appVars, codecVars, udpVars, startVars>>

\* what a readiness event does to the context: try_read when readable, then
\* try_write when writable (tls.rs:186-192, 208-214).  n bytes are read and
\* k bytes written; on a broken stream the read ends in Err and the write
\* fails.
ReadPart(rd, n) ==
    IF rd THEN try_read(Ctx, Take(down, n), stream = "broken")
    ELSE [ctx |-> Ctx, out |-> <<>>, panic |-> FALSE, err |-> FALSE]

WritePart(c, wr, k) ==
    IF wr THEN try_write(c, k, stream = "broken")
    ELSE [ctx |-> c, written |-> <<>>, err |-> FALSE]

\* the events the stream can raise for an interest: readable when bytes are
\* there or the stream is broken, writable when the interest asks for it
Events(wantRead, wantWrite) ==
    {e \in [rd : BOOLEAN, wr : BOOLEAN, n : 0..Len(down), k : 0..Len(buf_write)] :
        /\ e.rd \/ e.wr
        /\ e.rd => wantRead /\ (down # <<>> \/ stream = "broken")
        /\ e.wr => wantWrite
        /\ e.n = (IF ~e.rd THEN 0 ELSE IF stream = "broken" THEN Len(down) ELSE e.n)
        /\ e.rd /\ stream = "up" => e.n >= 1
        /\ e.k = (IF ~e.wr \/ stream = "broken" THEN 0 ELSE e.k)
        /\ e.wr /\ stream = "up" => e.k >= 1}

\* the body of the first loop of pipeline_io for SelectOutput::B
\* (tls.rs:185-193): a read error returns Err, a write error breaks to the
\* second loop, whose head (tls.rs:200-207) may return Ok at once
IoOutcome(e) ==
    The({IF r.panic THEN Gone(r.out, "panicked")
         ELSE IF r.err THEN Failed(r.ctx, r.out)
         ELSE IF w.err /\ Drained(w.ctx) THEN Gone(r.out, "done")
         ELSE Outcome(w.ctx, r.out, rx, IF w.err THEN "drain" ELSE "io", FALSE,
                      e.n, w.written) :
         <<r, w>> \in {<<x, WritePart(x.ctx, e.wr, e.k)>> : x \in {ReadPart(e.rd, e.n)}}})

\* the body of the second loop of pipeline_io (tls.rs:208-214) and its head
\* (tls.rs:200-207): a write error is ignored, a read error returns Err
DrainOutcome(e) ==
    The({IF r.panic THEN Gone(r.out, "panicked")
         ELSE IF r.err THEN Failed(r.ctx, r.out)
         ELSE IF Drained(w.ctx) THEN Gone(r.out, "done")
         ELSE Outcome(w.ctx, r.out, rx, "drain", FALSE, e.n, w.written) :
         <<r, w>> \in {<<x, WritePart(x.ctx, e.wr, e.k)>> : x \in {ReadPart(e.rd, e.n)}}})

\* first loop of pipeline_io, SelectOutput::B: interest is READABLE, plus
\* WRITABLE when the write buffer is not empty (tls.rs:175-179)
IoReady ==
    /\ pc = "io"
    /\ stream # "none"
    /\ \E e \in Events(TRUE, buf_write # <<>>) :
        \E o \in {IoOutcome(e)} :
            /\ Engine(o)
            /\ delivLog' = delivLog \o o.out
    /\ UNCHANGED <<subs, sentFrames, recov>>
    /\ UNCHANGED <<appVars, codecVars, udpVars, startVars>>

\* second loop of pipeline_io (tls.rs:199-215): interest follows the FIFO
\* and the write buffer
DrainReady ==
    /\ pc = "drain"
    /\ stream # "none"
    /\ \E e \in Events(queue # <<>>, buf_write # <<>>) :
        \E o \in {DrainOutcome(e)} :
            /\ Engine(o)
            /\ delivLog' = delivLog \o o.out
    /\ UNCHANGED <<subs, sentFrames, recov>>
    /\ UNCHANGED <<appVars, codecVars, udpVars, startVars>>

-----------------------------------------------------------------------------
(* The upstream resolver behind the stream *)

\* a complete request frame heads b: a big-endian length and that many bytes
HasFrame(b) == Len(b) >= 2 /\ Len(b) >= 2 + U16FromBe(Take(b, 2))
FrameLen(b) == 2 + U16FromBe(Take(b, 2))
Frame(p) == U16ToBe(Len(p)) \o p

\* the upstream answers the oldest request it has fully received with one
\* frame (RFC 7858 framing, requests answered in order)
UpstreamAnswer ==
    /\ stream = "up"
    /\ HasFrame(up_in)
    /\ \E p \in Payloads :
        /\ up_in' = Drop(up_in, FrameLen(up_in))
        /\ down' = down \o Frame(p)
        /\ sentFrames' = Append(sentFrames, p)
    /\ UNCHANGED <<len, buf_read, buf_write, queue, rx, pc, tx_alive, sink, stream,
                   subs, delivLog, recov>>
    /\ UNCHANGED <<appVars, codecVars, udpVars, startVars>>

\* the connection dies: the peer closes it or the network resets it; bytes
\* in flight towards the engine may be lost
StreamFail ==
    /\ stream = "up"
    /\ stream' = "broken"
    /\ \E m \in {0, Len(down)} : down' = Take(down, m)
    /\ UNCHANGED <<len, buf_read, buf_write, queue, rx, pc, tx_alive, sink, up_in,
                   subs, sentFrames, delivLog, recov>>
    /\ UNCHANGED <<appVars, codecVars, udpVars, startVars>>

NextTls ==
    \/ \E s \in Sinks, p \in ReqPayloads : Submit(s, p)
    \/ \E s \in Sinks : Unblock(s)
    \/ DropProxy
    \/ ConnectOk
    \/ ConnectErr
    \/ Wake
    \/ WaitRecv
    \/ IoRecv
    \/ IoClosed
    \/ IoReady
    \/ DrainReady
    \/ UpstreamAnswer
    \/ StreamFail

SpecTls == InitTls /\ [][NextTls]_vars

\* The scheduling the runtime gives the engine: a ready task is polled, a
\* connect attempt and a sleep end, and the upstream answers every request
\* it has fully received.  Clients, the App and stream failures are free.
FairTls ==
    /\ SpecTls
    /\ WF_vars(ConnectOk \/ ConnectErr)
    /\ WF_vars(Wake)
    /\ WF_vars(WaitRecv)
    /\ WF_vars(IoRecv)
    /\ WF_vars(IoClosed)
    /\ WF_vars(IoReady)
    /\ WF_vars(DrainReady)
    /\ WF_vars(UpstreamAnswer)
    /\ WF_vars(\E s \in Sinks : Unblock(s))

-----------------------------------------------------------------------------
(* The engine behind an upstream that also sends frames nobody asked for *)

\* the most frames a connection carries beyond the requests encoded for it
MaxExtra == 1

\* the upstream sends a frame that answers no request
Unsolicited ==
    /\ stream = "up"
    /\ Len(sentFrames) < Len(subs) + MaxExtra
    /\ \E p \in Payloads :
        /\ down' = down \o Frame(p)
        /\ sentFrames' = Append(sentFrames, p)
    /\ UNCHANGED <<len, buf_read, buf_write, queue, rx, pc, tx_alive, sink, stream,
                   up_in, subs, delivLog, recov>>
    /\ UNCHANGED <<appVars, codecVars, udpVars, startVars>>

NextRogue ==
    \/ NextTls
    \/ Unsolicited

SpecRogue == InitTls /\ [][NextRogue]_vars

-----------------------------------------------------------------------------
(* TlsContext::decode on its own (tls.rs:144-161) *)

\* the most bytes buffered when decode is called
MaxBuffered == 4
\* the longest frame announced by an expected length left by an earlier call
MaxFrame == 2
\* the byte values of the buffered bytes: prefixes 0, 1, 256 and 257
FrameBytes == {0, 1}

\* the FIFOs decode may find: the oldest k sinks, k = 0 when every frame
\* buffered is unsolicited
Fifos == {[i \in 1..k |-> i] : k \in 0..MaxSubs}

\* decode is about to be called by try_read (tls.rs:130), which has just
\* put at least one byte into buf_read; an expected length left by the
\* call before is at least 1, since a zero length is used up in the loop
\* that read it
InitFrame ==
    /\ AppNew /\ CodecNew /\ UdpNew /\ StartNew
    /\ rx = <<>> /\ tx_alive = TRUE
    /\ stream = "up" /\ up_in = <<>> /\ down = <<>>
    /\ subs = <<>> /\ sentFrames = <<>> /\ delivLog = <<>> /\ recov = None
    /\ len \in {None} \cup {Some(n) : n \in 1..MaxFrame}
    /\ buf_read \in SeqsUpTo(FrameBytes, MaxBuffered) \ {<<>>}
    /\ buf_write = <<>>
    /\ queue \in Fifos
    /\ sink = [s \in Sinks |-> IF s \in Range(queue)
                               THEN [Idle EXCEPT !.st = "waiting"] ELSE Idle]
    /\ pc = "decode"

\* the call of decode: it returns, having handed out the frames it found, or
\* panics at queue.pop_front().unwrap() (tls.rs:149)
DecodeFrames ==
    /\ pc = "decode"
    /\ \E d \in {decode(Ctx)} :
        /\ Engine(IF d.panic THEN Gone(d.out, "panicked")
                  ELSE Outcome([Ctx EXCEPT !.len = d.len, !.buf_read = d.buf_read,
                                           !.queue = d.queue],
                               d.out, rx, "returned", FALSE, 0, <<>>))
        /\ delivLog' = d.out
    /\ UNCHANGED <<subs, sentFrames, recov>>
    /\ UNCHANGED <<appVars, codecVars, udpVars, startVars>>

NextFrame == DecodeFrames

SpecFrame == InitFrame /\ [][NextFrame]_vars

-----------------------------------------------------------------------------
(* DnsBuf: the byte buffer with a cursor (dns.rs:10-170)                    *)
(*                                                                         *)
(* A read is a record [r, pos, v]: r is "ok", "err" (the io::Error of      *)
(* eof_err), "panic" (a slice index out of range) or "hang" (a loop that   *)
(* never ends); pos is the cursor after it, counted from 0 as in the code; *)
(* v is the value read.  A Rust String is the sequence of its bytes.       *)

\* the limit the buffer checks its cursor against (dns.rs:33, 44, 51, 123)
BufLimit == 512

Res(r, pos, v) == [r |-> r, pos |-> pos, v |-> v]

\* DnsBuf::read (dns.rs:32-41)
read(buf, pos) ==
    IF pos >= BufLimit THEN Res("err", pos, 0)
    ELSE IF pos >= Len(buf) THEN Res("panic", pos, 0)
    ELSE Res("ok", pos + 1, buf[pos + 1])

\* DnsBuf::get (dns.rs:43-48)
get(buf, pos) ==
    IF pos >= BufLimit THEN Res("err", pos, 0)
    ELSE IF pos >= Len(buf) THEN Res("panic", pos, 0)
    ELSE Res("ok", pos, buf[pos + 1])

\* DnsBuf::get_range (dns.rs:50-55)
get_range(buf, start, n) ==
    IF start + n >= BufLimit THEN Res("err", start, <<>>)
    ELSE IF start + n > Len(buf) THEN Res("panic", start, <<>>)
    ELSE Res("ok", start, SubSeq(buf, start + 1, start + n))

\* n successive reads joined big-endian: the body of read_u16 and read_u32,
\* which stop at the first read that fails
RECURSIVE ReadBE(_, _, _)
ReadBE(buf, pos, n) ==
    IF n = 0 THEN Res("ok", pos, 0)
    ELSE The({IF hi.r # "ok" THEN hi
              ELSE The({IF lo.r # "ok" THEN lo
                        ELSE Res("ok", lo.pos, hi.v * 256 + lo.v) :
                        lo \in {read(buf, hi.pos)}}) :
              hi \in {ReadBE(buf, pos, n - 1)}})

\* DnsBuf::read_u16 (dns.rs:57-61)
read_u16(buf, pos) == ReadBE(buf, pos, 2)

\* DnsBuf::read_u32 (dns.rs:63-70)
read_u32(buf, pos) == ReadBE(buf, pos, 4)

\* str::to_lowercase on ASCII bytes (dns.rs:108)
Lower(b) == IF b >= 65 /\ b <= 90 THEN b + 32 ELSE b
LowerAll(bs) == [i \in 1..Len(bs) |-> Lower(bs[i])]

\* the '.' that joins labels (dns.rs:110) and splits names (dns.rs:148)
Dot == 46

RECURSIVE qnameLoop(_, _, _, _, _, _, _)

\* a loop that moves the buffer's cursor at every jump, not only the first
qnameLoop_seeksEveryJump(buf, cur, p, jumped, out, delim, seen) ==
    The({
        IF l.r # "ok" THEN Res(l.r, cur, out)
        ELSE IF (l.v \div 64) % 4 = 3
        THEN The({
                IF b2.r # "ok" THEN Res(b2.r, c2, out)
                ELSE IF p \in seen THEN Res("hang", c2, out)
                ELSE qnameLoop(buf, c2, ((l.v - 192) * 256) + b2.v, TRUE, out,
                               delim, seen \cup {p}) :
                <<c2, b2>> \in {<<p + 2, get(buf, p + 1)>>}})
        ELSE IF l.v = 0
        THEN Res("ok", IF jumped THEN cur ELSE p + 1, out)
        ELSE The({
                IF lab.r # "ok" THEN Res(lab.r, cur, out)
                ELSE qnameLoop(buf, cur, p + 1 + l.v, jumped,
                               out \o delim \o LowerAll(lab.v), <<Dot>>, seen) :
                lab \in {get_range(buf, p + 1, l.v)}}) :
        l \in {get(buf, p)}})

\* a loop that takes the pointer's two high bits into the offset
qnameLoop_keepsPointerBits(buf, cur, p, jumped, out, delim, seen) ==
    The({
        IF l.r # "ok" THEN Res(l.r, cur, out)
        ELSE IF (l.v \div 64) % 4 = 3
        THEN The({
                IF b2.r # "ok" THEN Res(b2.r, c2, out)
                ELSE IF p \in seen THEN Res("hang", c2, out)
                ELSE qnameLoop(buf, c2, (l.v * 256) + b2.v, TRUE, out,
                               delim, seen \cup {p}) :
                <<c2, b2>> \in {<<IF jumped THEN cur ELSE p + 2, get(buf, p + 1)>>}})
        ELSE IF l.v = 0
        THEN Res("ok", IF jumped THEN cur ELSE p + 1, out)
        ELSE The({
                IF lab.r # "ok" THEN Res(lab.r, cur, out)
                ELSE qnameLoop(buf, cur, p + 1 + l.v, jumped,
                               out \o delim \o LowerAll(lab.v), <<Dot>>, seen) :
                lab \in {get_range(buf, p + 1, l.v)}}) :
        l \in {get(buf, p)}})

\* The loop of read_qname (dns.rs:77-113) from the local cursor p: cur is
\* the buffer's own cursor, out the name so far, delim the pending
\* delimiter, seen the offsets of the pointers followed so far (a pointer
\* met twice means the loop never ends).
qnameLoop(buf, cur, p, jumped, out, delim, seen) ==
    The({
        IF l.r # "ok" THEN Res(l.r, cur, out)
        ELSE IF (l.v \div 64) % 4 = 3
        THEN The({
                IF b2.r # "ok" THEN Res(b2.r, c2, out)
                ELSE IF p \in seen THEN Res("hang", c2, out)
                ELSE qnameLoop(buf, c2, ((l.v - 192) * 256) + b2.v, TRUE, out,
                               delim, seen \cup {p}) :
                <<c2, b2>> \in {<<IF jumped THEN cur ELSE p + 2, get(buf, p + 1)>>}})
        ELSE IF l.v = 0
        THEN Res("ok", IF jumped THEN cur ELSE p + 1, out)
        ELSE The({
                IF lab.r # "ok" THEN Res(lab.r, cur, out)
                ELSE qnameLoop(buf, cur, p + 1 + l.v, jumped,
                               out \o delim \o LowerAll(lab.v), <<Dot>>, seen) :
                lab \in {get_range(buf, p + 1, l.v)}}) :
        l \in {get(buf, p)}})

\* DnsBuf::read_qname (dns.rs:72-120); v is the name appended to outstr
read_qname(buf, pos) == qnameLoop(buf, pos, pos, FALSE, <<>>, <<>>, {})

\* bit k of the byte n: (n & (1 << k)) > 0 (dns.rs:254-264)
Bit(n, k) == (n \div (2 ^ k)) % 2 = 1

\* `as u8` of a bool (dns.rs:279-291)
B2N(b) == IF b THEN 1 ELSE 0

\* One more read after the reads of x, as the `?` chains of the readers do:
\* a failed x is returned as it is, otherwise the read continues at x's
\* cursor and its value is appended to the values of x.
Then(a, next) ==
    The({Res(y.r, y.pos, IF y.r = "ok" THEN Append(a.v, y.v) ELSE a.v) :
         y \in {next}})

AndU16(buf, x) ==
    The({IF a.r # "ok" THEN a ELSE Then(a, read_u16(buf, a.pos)) : a \in {x}})

AndU32(buf, x) ==
    The({IF a.r # "ok" THEN a ELSE Then(a, read_u32(buf, a.pos)) : a \in {x}})

AndQname(buf, x) ==
    The({IF a.r # "ok" THEN a ELSE Then(a, read_qname(buf, a.pos)) : a \in {x}})

\* a from_num that keeps every number it is given
ResultCodeFromNum_keepsAll(num) == num

\* ResultCode::from_num (dns.rs:196-205), the code kept as its number
ResultCodeFromNum(num) == IF num \in 1..5 THEN num ELSE 0

\* DnsHeader::new (dns.rs:228-246)
DnsHeaderNew ==
    [id |-> 0, recursion_desired |-> FALSE, truncated_message |-> FALSE,
     authoritative_answer |-> FALSE, opcode |-> 0, response |-> FALSE,
     rescode |-> 0, checking_disabled |-> FALSE, authed_data |-> FALSE,
     z |-> FALSE, recursion_available |-> FALSE, questions |-> 0,
     answers |-> 0, authoritative_entries |-> 0, resource_entries |-> 0]

\* DnsHeader::read (dns.rs:248-273)
DnsHeaderRead(buf, pos) ==
    The({IF h.r # "ok" THEN Res(h.r, h.pos, DnsHeaderNew)
         ELSE The({
            Res("ok", h.pos,
                [id |-> h.v[1],
                 recursion_desired |-> Bit(a, 0),
                 truncated_message |-> Bit(a, 1),
                 authoritative_answer |-> Bit(a, 2),
                 opcode |-> (a \div 8) % 16,
                 response |-> Bit(a, 7),
                 rescode |-> ResultCodeFromNum(b % 16),
                 checking_disabled |-> Bit(b, 4),
                 authed_data |-> Bit(b, 5),
                 z |-> Bit(b, 6),
                 recursion_available |-> Bit(b, 7),
                 questions |-> h.v[3],
                 answers |-> h.v[4],
                 authoritative_entries |-> h.v[5],
                 resource_entries |-> h.v[6]]) :
            <<a, b>> \in {<<h.v[2] \div 256, h.v[2] % 256>>}}) :
         h \in {AndU16(buf, AndU16(buf, AndU16(buf,
                AndU16(buf, AndU16(buf, AndU16(buf,
                Res("ok", pos, <<>>)))))))}})

\* QueryType (dns.rs:302-309): k names the variant, n is the number an
\* UNKNOWN carries
QueryType(k) == [k |-> k, n |-> 0]
UNKNOWN(n) == [k |-> "UNKNOWN", n |-> n]

\* QueryType::to_num (dns.rs:312-321)
to_num(q) ==
    CASE q.k = "UNKNOWN" -> q.n
      [] q.k = "A" -> 1
      [] q.k = "NS" -> 2
      [] q.k = "CNAME" -> 5
      [] q.k = "MX" -> 15
      [] q.k = "AAAA" -> 28

\* QueryType::from_num (dns.rs:323-332)
from_num(num) ==
    CASE num = 1 -> QueryType("A")
      [] num = 2 -> QueryType("NS")
      [] num = 5 -> QueryType("CNAME")
      [] num = 15 -> QueryType("MX")
      [] num = 28 -> QueryType("AAAA")
      [] OTHER -> UNKNOWN(num)

\* DnsQuestion::new (dns.rs:342-344)
DnsQuestionNew(name, qtype) == [name |-> name, qtype |-> qtype]

\* DnsQuestion::read (dns.rs:346-352)
DnsQuestionRead(buf, pos) ==
    The({IF q.r # "ok" THEN Res(q.r, q.pos, DnsQuestionNew(<<>>, UNKNOWN(0)))
         ELSE Res("ok", q.pos, DnsQuestionNew(q.v[1], from_num(q.v[2]))) :
         q \in {AndU16(buf, AndU16(buf, AndQname(buf,
                Res("ok", pos, <<>>))))}})

\* the octets of Ipv4Addr::new (dns.rs:436-441)
Octets(raw) == <<(raw \div 16777216) % 256, (raw \div 65536) % 256,
                 (raw \div 256) % 256, raw % 256>>

\* the segments of Ipv6Addr::new (dns.rs:450-459)
Segments(raws) ==
    [i \in 1..8 |-> IF i % 2 = 1 THEN (raws[(i + 1) \div 2] \div 65536) % 65536
                    ELSE raws[i \div 2] % 65536]

\* The body of DnsRecord::read after the fixed fields f = <<domain,
\* qtype_num, class, ttl, data_len>>, read up to pos (dns.rs:433-505)
DnsRecordBody(buf, pos, f) ==
    The({
        CASE qtype.k = "A" ->
               The({Res(a.r, a.pos,
                        IF a.r # "ok" THEN <<>>
                        ELSE [t |-> "A", domain |-> f[1], addr |-> Octets(a.v),
                              ttl |-> f[4]]) :
                    a \in {read_u32(buf, pos)}})
          [] qtype.k = "AAAA" ->
               The({Res(a.r, a.pos,
                        IF a.r # "ok" THEN <<>>
                        ELSE [t |-> "AAAA", domain |-> f[1],
                              addr |-> Segments(a.v), ttl |-> f[4]]) :
                    a \in {AndU32(buf, AndU32(buf,
                           AndU32(buf, AndU32(buf,
                           Res("ok", pos, <<>>)))))}})
          [] qtype.k \in {"NS", "CNAME"} ->
               The({Res(h.r, h.pos,
                        IF h.r # "ok" THEN <<>>
                        ELSE [t |-> qtype.k, domain |-> f[1], host |-> h.v,
                              ttl |-> f[4]]) :
                    h \in {read_qname(buf, pos)}})
          [] qtype.k = "MX" ->
               The({Res(m.r, m.pos,
                        IF m.r # "ok" THEN <<>>
                        ELSE [t |-> "MX", domain |-> f[1], priority |-> m.v[1],
                              host |-> m.v[2], ttl |-> f[4]]) :
                    m \in {AndQname(buf, AndU16(buf,
                           Res("ok", pos, <<>>)))}})
          [] qtype.k = "UNKNOWN" ->
               Res("ok", pos + f[5],
                   [t |-> "UNKNOWN", domain |-> f[1], qtype |-> f[2],
                    data_len |-> f[5], ttl |-> f[4]]) :
        qtype \in {from_num(f[2])}})

\* DnsRecord::read (dns.rs:423-506)
DnsRecordRead(buf, pos) ==
    The({IF f.r # "ok" THEN Res(f.r, f.pos, <<>>)
         ELSE DnsRecordBody(buf, f.pos, f.v) :
         f \in {AndU16(buf, AndU32(buf, AndU16(buf,
                AndU16(buf, AndQname(buf,
                Res("ok", pos, <<>>))))))}})

\* DnsRecord::ttl (dns.rs:401-410)
ttl(rec) == rec.ttl

\* DnsRecord::name (dns.rs:412-421)
name(rec) == rec.domain

\* the first loop of DnsPacket::read: n more questions read from x's
\* cursor and pushed onto x's vector (dns.rs:632-636)
RECURSIVE ReadQuestions(_, _, _)
ReadQuestions(buf, x, n) ==
    IF n = 0 \/ x.r # "ok" THEN x
    ELSE The({ReadQuestions(buf, y, n - 1) :
              y \in {Then(x, DnsQuestionRead(buf, x.pos))}})

\* the other loops of DnsPacket::read: n more records read from x's cursor
\* and pushed onto x's vector (dns.rs:638-649)
RECURSIVE ReadRecords(_, _, _)
ReadRecords(buf, x, n) ==
    IF n = 0 \/ x.r # "ok" THEN x
    ELSE The({ReadRecords(buf, y, n - 1) :
              y \in {Then(x, DnsRecordRead(buf, x.pos))}})

\* DnsPacket::new (dns.rs:619-627)
DnsPacketNew ==
    [header |-> DnsHeaderNew, questions |-> <<>>, answers |-> <<>>,
     authorities |-> <<>>, resources |-> <<>>]

\* DnsPacket::read (dns.rs:629-652) of a fresh packet over the slice buf; the
\* callers drop the packet of a failed read, so v is then the fresh packet
DnsPacketRead(buf) ==
    The({IF h.r # "ok" THEN Res(h.r, h.pos, DnsPacketNew)
         ELSE The({The({The({The({
            Res(rs.r, rs.pos,
                IF rs.r # "ok" THEN DnsPacketNew
                ELSE [header |-> h.v, questions |-> qs.v, answers |-> an.v,
                      authorities |-> au.v, resources |-> rs.v]) :
            rs \in {IF au.r # "ok" THEN au
                    ELSE ReadRecords(buf, Res("ok", au.pos, <<>>),
                                 h.v.resource_entries)}}) :
            au \in {IF an.r # "ok" THEN an
                    ELSE ReadRecords(buf, Res("ok", an.pos, <<>>),
                                 h.v.authoritative_entries)}}) :
            an \in {IF qs.r # "ok" THEN qs
                    ELSE ReadRecords(buf, Res("ok", qs.pos, <<>>),
                                 h.v.answers)}}) :
            qs \in {ReadQuestions(buf, Res("ok", h.pos, <<>>),
                            h.v.questions)}}) :
         h \in {DnsHeaderRead(buf, 0)}})

\* A writer is a record [r, bytes]: the zeroed 512-byte buffer the callers
\* write into is filled from its start, so bytes, the part written so far,
\* is buf[..pos] and its length is pos.
WNew == [r |-> "ok", bytes |-> <<>>]

\* DnsBuf::write after the writes of w (dns.rs:122-129); a failed w stays
\* failed, as the `?` of the callers return at the first error
write(w, val) ==
    The({IF x.r # "ok" THEN x
         ELSE IF Len(x.bytes) >= BufLimit THEN [x EXCEPT !.r = "err"]
         ELSE [x EXCEPT !.bytes = Append(@, val)] :
         x \in {w}})

\* DnsBuf::write_u8 (dns.rs:131-133)
write_u8(w, val) == write(w, val)

\* DnsBuf::write_u16 (dns.rs:135-138)
write_u16(w, val) == write(write(w, (val \div 256) % 256), val % 256)

\* DnsBuf::write_u32 (dns.rs:140-145)
write_u32(w, val) ==
    write(write(write(write(w, (val \div 16777216) % 256),
                      (val \div 65536) % 256), (val \div 256) % 256), val % 256)

\* DnsBuf::set_u16 (dns.rs:162-169) at the offset pos, counted from 0
set_u16(w, pos, val) ==
    [w EXCEPT !.bytes = [i \in 1..Len(@) |->
                            IF i = pos + 1 THEN (val \div 256) % 256
                            ELSE IF i = pos + 2 THEN val % 256 ELSE @[i]]]

\* str::split('.') (dns.rs:148): the labels of a name, "" giving one empty
\* label
RECURSIVE Split(_)
Split(s) ==
    IF \A i \in 1..Len(s) : s[i] # Dot THEN <<s>>
    ELSE The({<<SubSeq(s, 1, k - 1)>> \o Split(SubSeq(s, k + 1, Len(s))) :
              k \in {CHOOSE i \in 1..Len(s) :
                        s[i] = Dot /\ \A j \in 1..(i - 1) : s[j] # Dot}})

\* the longest label write_qname accepts (dns.rs:175)
MaxLabel == 52

\* label_len_check (dns.rs:172-183)
label_len_check(n) == n <= MaxLabel

\* the loop of write_u8 over the bytes of a label (dns.rs:154-156), in
\* closed form: the bytes are appended up to the limit, where the write
\* that does not fit fails
writeBytes(w, bs) ==
    The({IF x.r # "ok" THEN x
         ELSE IF Len(x.bytes) + Len(bs) > BufLimit
              THEN [r |-> "err", bytes |-> Take(x.bytes \o bs, BufLimit)]
         ELSE [x EXCEPT !.bytes = @ \o bs] :
         x \in {w}})

\* the loop of write_qname over the labels (dns.rs:148-157)
RECURSIVE writeLabels(_, _)
writeLabels(w, labels) ==
    IF labels = <<>> \/ w.r # "ok" THEN w
    ELSE IF ~label_len_check(Len(Head(labels))) THEN [w EXCEPT !.r = "err"]
    ELSE writeLabels(writeBytes(write_u8(w, Len(Head(labels)) % 256),
                                Head(labels)),
                     Tail(labels))

\* DnsBuf::write_qname (dns.rs:147-160)
write_qname(w, qname) == write_u8(writeLabels(w, Split(qname)), 0)

\* DnsHeader::write (dns.rs:275-298); the fields or-ed into a byte do not
\* overlap while opcode < 16, as every header that was read has it
DnsHeaderWrite(w, h) ==
    write_u16(write_u16(write_u16(write_u16(
        write_u8(
            write_u8(
                write_u16(w, h.id),
                (B2N(h.recursion_desired) + 2 * B2N(h.truncated_message)
                 + 4 * B2N(h.authoritative_answer) + 8 * h.opcode
                 + 128 * B2N(h.response)) % 256),
            h.rescode + 16 * B2N(h.checking_disabled) + 32 * B2N(h.authed_data)
            + 64 * B2N(h.z) + 128 * B2N(h.recursion_available)),
        h.questions), h.answers), h.authoritative_entries), h.resource_entries)

\* DnsQuestion::write (dns.rs:354-360)
DnsQuestionWrite(w, q) ==
    write_u16(write_u16(write_qname(w, q.name), to_num(q.qtype)), 1)

\* the head every written record starts with: name, type, class, ttl
\* (dns.rs:517-520, 534-537, 552-555, 571-574, 590-593)
RecHead(w, rec, qtype) ==
    write_u32(write_u16(write_u16(write_qname(w, rec.domain), to_num(qtype)), 1),
              rec.ttl)

\* the length backfilled once the data written from pos + 2 is known
\* (dns.rs:539-545, 557-563, 576-583); a failed write returns before it
Backfill(w, pos) ==
    The({IF x.r # "ok" THEN x
         ELSE set_u16(x, pos, (Len(x.bytes) - (pos + 2)) % 65536) :
         x \in {w}})

RECURSIVE writeU16s(_, _)
writeU16s(w, vs) ==
    IF vs = <<>> THEN w ELSE writeU16s(write_u16(w, Head(vs)), Tail(vs))

\* DnsRecord::write (dns.rs:508-607)
DnsRecordWrite(w, rec) ==
    CASE rec.t = "A" ->
           writeBytes(write_u16(RecHead(w, rec, QueryType("A")), 4), rec.addr)
      [] rec.t \in {"NS", "CNAME"} ->
           The({Backfill(write_qname(write_u16(h, 0), rec.host), Len(h.bytes)) :
                h \in {RecHead(w, rec, QueryType(rec.t))}})
      [] rec.t = "MX" ->
           The({Backfill(write_qname(write_u16(write_u16(h, 0), rec.priority),
                                     rec.host), Len(h.bytes)) :
                h \in {RecHead(w, rec, QueryType("MX"))}})
      [] rec.t = "AAAA" ->
           writeU16s(write_u16(RecHead(w, rec, QueryType("AAAA")), 16), rec.addr)
      [] rec.t = "UNKNOWN" -> w

\* the first loop of DnsPacket::write (dns.rs:662-664)
RECURSIVE WriteQuestions(_, _)
WriteQuestions(w, items) ==
    IF items = <<>> \/ w.r # "ok" THEN w
    ELSE The({WriteQuestions(x, Tail(items)) :
              x \in {DnsQuestionWrite(w, Head(items))}})

\* the other loops of DnsPacket::write (dns.rs:665-673)
RECURSIVE WriteRecords(_, _)
WriteRecords(w, items) ==
    IF items = <<>> \/ w.r # "ok" THEN w
    ELSE The({WriteRecords(x, Tail(items)) :
              x \in {DnsRecordWrite(w, Head(items))}})

\* DnsPacket::write (dns.rs:654-676): the header's counts are set from the
\* vectors (`as u16`), then header, questions and records are written
DnsPacketWrite(w, p) ==
    The({The({The({The({WriteRecords(a, p.resources) :
                        a \in {WriteRecords(b, p.authorities)}}) :
                   b \in {WriteRecords(q, p.answers)}}) :
              q \in {WriteQuestions(h, p.questions)}}) :
         h \in {DnsHeaderWrite(w,
                    [p.header EXCEPT
                        !.questions = Len(p.questions) % 65536,
                        !.answers = Len(p.answers) % 65536,
                        !.authoritative_entries = Len(p.authorities) % 65536,
                        !.resource_entries = Len(p.resources) % 65536])}})

-----------------------------------------------------------------------------
(* Cache (cache.rs).  Time is counted in whole seconds: the ticker stores   *)
(* Instant::now() once per second and every reader sees the stored value.  *)

\* HashMap::insert (cache.rs:32)
Insert(m, k, v) == [n \in DOMAIN m \cup {k} |-> IF n = k THEN v ELSE m[n]]

\* the loop of Cache::set over the answers (cache.rs:30-33)
RECURSIVE setLoop(_, _, _)
setLoop(m, answers, now) ==
    IF answers = <<>> THEN m
    ELSE setLoop(Insert(m, name(Head(answers)), <<Head(answers), now>>),
                 Tail(answers), now)

\* Cache::set (cache.rs:26-35) on the map m at the timer's value now: r is
\* "ok" when it returns, "panic" or "hang" when the read does not return
CacheSet(m, now, buf) ==
    The({IF p.r \in {"panic", "hang"} THEN [r |-> p.r, inner |-> m]
         ELSE IF p.r = "err" THEN [r |-> "ok", inner |-> m]
         ELSE [r |-> "ok", inner |-> setLoop(m, p.v.answers, now)] :
         p \in {DnsPacketRead(buf)}})

\* the loop of Cache::get over the questions (cache.rs:45-55): None at the
\* first question without a live record, else the answers with one record
\* pushed per question
RECURSIVE getLoop(_, _, _, _)
getLoop(m, now, questions, answers) ==
    IF questions = <<>> THEN Some(answers)
    ELSE IF Head(questions).name \notin DOMAIN m THEN None
    ELSE The({IF now - e[2] >= ttl(e[1]) THEN None
              ELSE getLoop(m, now, Tail(questions), Append(answers, e[1])) :
              e \in {m[Head(questions).name]}})

\* a reply built on a fresh packet rather than on the query that was read
CacheGet_freshPacket(m, now, buf) ==
    The({IF p.r \in {"panic", "hang"} THEN [r |-> p.r, v |-> None]
         ELSE IF p.r = "err" THEN [r |-> "ok", v |-> None]
         ELSE The({
            IF a = None THEN [r |-> "ok", v |-> None]
            ELSE The({[r |-> "ok",
                       v |-> IF w.r = "ok" THEN Some(w.bytes) ELSE None] :
                      w \in {DnsPacketWrite(WNew,
                                [DnsPacketNew EXCEPT !.questions = p.v.questions,
                                                     !.answers = a[1]])}}) :
            a \in {getLoop(m, now, p.v.questions, p.v.answers)}}) :
         p \in {DnsPacketRead(buf)}})

\* Cache::get (cache.rs:37-64): v is the Option<Vec<u8>> it returns
CacheGet(m, now, buf) ==
    The({IF p.r \in {"panic", "hang"} THEN [r |-> p.r, v |-> None]
         ELSE IF p.r = "err" THEN [r |-> "ok", v |-> None]
         ELSE The({
            IF a = None THEN [r |-> "ok", v |-> None]
            ELSE The({[r |-> "ok",
                       v |-> IF w.r = "ok" THEN Some(w.bytes) ELSE None] :
                      w \in {DnsPacketWrite(WNew, [p.v EXCEPT !.answers = a[1]])}}) :
            a \in {getLoop(m, now, p.v.questions, p.v.answers)}}) :
         p \in {DnsPacketRead(buf)}})

-----------------------------------------------------------------------------
(* The datagrams the model draws: queries for one name, a datagram too     *)
(* short to hold a header, and the answers an upstream may give.           *)

\* at most this many datagrams are received
MaxReqs == 2
\* at most this many calls of Cache::set are made on the cache alone
MaxSets == 1
\* the timer ticks at most this many times
MaxTime == 2
\* the TTLs of the upstream's records are 1..MaxTtl seconds
MaxTtl == 2

Ids == {1, 2}
Addrs == {"client"}
NameA == <<97>>
NameB == <<98>>
Addr1 == <<10, 0, 0, 1>>
Addr2 == <<10, 0, 0, 2>>
Seg1 == <<8193, 3512, 0, 0, 0, 0, 0, 1>>

Query(id, n, t) ==
    [DnsPacketNew EXCEPT !.header.id = id, !.header.recursion_desired = TRUE,
                         !.questions = <<DnsQuestionNew(n, QueryType(t))>>]

Bytes(p) == DnsPacketWrite(WNew, p).bytes
Packet(bytes) == DnsPacketRead(bytes).v

Queries == {Bytes(Query(id, NameA, t)) : id \in Ids, t \in {"A", "AAAA"}}
Short == <<0, 0, 0>>
\* a query whose header declares no question
NoQuestion == Bytes([DnsPacketNew EXCEPT !.header.id = 1])
Datagrams == Queries \cup {Short, NoQuestion}

RecA(n, addr, t) == [t |-> "A", domain |-> n, addr |-> addr, ttl |-> t]
RecAAAA(n, addr, t) == [t |-> "AAAA", domain |-> n, addr |-> addr, ttl |-> t]
RecCNAME(n, host, t) == [t |-> "CNAME", domain |-> n, host |-> host, ttl |-> t]

\* the answer sections an upstream may give to the question q: none, one
\* address, two addresses of the name, or an alias and the alias's address
AnswerSets(q) ==
    IF q.qtype.k = "A"
    THEN {<<>>,
          <<RecA(q.name, Addr1, MaxTtl)>>,
          <<RecA(q.name, Addr1, MaxTtl), RecA(q.name, Addr2, 1)>>,
          <<RecCNAME(q.name, NameB, MaxTtl), RecA(NameB, Addr1, 1)>>}
    ELSE {<<>>, <<RecAAAA(q.name, Seg1, MaxTtl)>>}

\* Proxy::proxy (proxy.rs:14-16) seen from the App: the raw responses an
\* upstream may return for the raw query req
Upstream(req) ==
    The({IF p.r # "ok" \/ p.v.questions = <<>> THEN {}
         ELSE {Bytes([p.v EXCEPT !.header.response = TRUE,
                                 !.header.recursion_available = TRUE,
                                 !.answers = a]) :
               a \in AnswerSets(p.v.questions[1])} :
         p \in {DnsPacketRead(req)}})

\* the responses the upstream may return, per datagram of the model
Responses == [d \in Datagrams |-> Upstream(d)]

\* the query the scenarios with few inputs ask
Asked == Bytes(Query(1, NameA, "A"))

\* a response cut short in its last record: reading it runs off the slice
Truncated(res) == Take(res, Len(res) - 1)

\* a response whose question name is a pointer to offset 768, past the
\* limit of the buffer: reading it ends in the error of eof_err
BadPointer(res) == Take(res, 12) \o <<195, 0, 0, 1, 0, 1>>

\* two responses to Asked that cannot be read
Malformed ==
    {Truncated(Bytes([Packet(Asked) EXCEPT
                        !.header.response = TRUE,
                        !.header.recursion_available = TRUE,
                        !.answers = <<RecA(NameA, Addr1, MaxTtl)>>])),
     BadPointer(Bytes([Packet(Asked) EXCEPT
                        !.header.response = TRUE,
                        !.header.recursion_available = TRUE]))}

\* the response to Asked with the answers a
Reply(a) ==
    Bytes([Packet(Asked) EXCEPT !.header.response = TRUE,
                                !.header.recursion_available = TRUE,
                                !.answers = a])

\* the responses the upstream may give to Asked in the scenarios with few
\* inputs: one address, an alias and the alias's address, and the two that
\* cannot be read
Replies ==
    {Reply(<<RecA(NameA, Addr1, MaxTtl)>>),
     Reply(<<RecCNAME(NameA, NameB, MaxTtl), RecA(NameB, Addr1, 1)>>)}
    \cup Malformed

-----------------------------------------------------------------------------
(* The cache on its own: set and get called as its users may call them.    *)

\* what the history keeps of a call of Cache::get (cache.rs:37-64)
Got(d, v) == [req |-> d, out |-> v, at |-> time, n |-> Len(stored)]

\* Cache::set (cache.rs:26-35) called with the response res to the query q
Set(q, res) ==
    /\ Len(stored) < MaxSets
    /\ \E s \in {CacheSet(inner, time, res)} :
        /\ s.r = "ok"
        /\ inner' = s.inner
    /\ stored' = Append(stored, [req |-> q, res |-> res, at |-> time])
    /\ UNCHANGED <<time, run, tasks, last>>
    /\ UNCHANGED <<tlsVars, codecVars, udpVars, startVars>>

\* Get that removes the records it finds expired
Get_evictsExpired(d) ==
    /\ \E g \in {CacheGet(inner, time, d)} :
        /\ g.r = "ok"
        /\ last' = Some(Got(d, g.v))
    /\ inner' = [k \in {j \in DOMAIN inner : time - inner[j][2] < ttl(inner[j][1])}
                    |-> inner[k]]
    /\ UNCHANGED <<time, run, tasks, stored>>
    /\ UNCHANGED <<tlsVars, codecVars, udpVars, startVars>>

\* Cache::get (cache.rs:37-64) called with the datagram d
Get(d) ==
    /\ \E g \in {CacheGet(inner, time, d)} :
        /\ g.r = "ok"
        /\ last' = Some(Got(d, g.v))
    /\ UNCHANGED <<inner, time, run, tasks, stored>>
    /\ UNCHANGED <<tlsVars, codecVars, udpVars, startVars>>

\* the ticker of LowResTimer (cache.rs:78-83), one second later
Tick ==
    /\ run = "running"
    /\ time < MaxTime
    /\ time' = time + 1
    /\ UNCHANGED <<inner, run, tasks, stored, last>>
    /\ UNCHANGED <<tlsVars, codecVars, udpVars, startVars>>

NextCache ==
    \/ \E q \in Queries : \E res \in Responses[q] : Set(q, res)
    \/ \E d \in Datagrams : Get(d)
    \/ Tick

InitCache == InitTls

SpecCache == InitCache /\ [][NextCache]_vars

\* Cache::set (cache.rs:26-35) called once more, with another response to a
\* query whose response was set before
Overwrite(q, res) ==
    /\ stored # <<>>
    /\ Len(stored) <= MaxSets
    /\ \E k \in DOMAIN stored : stored[k].req = q
    /\ \E s \in {CacheSet(inner, time, res)} :
        /\ s.r = "ok"
        /\ inner' = s.inner
    /\ stored' = Append(stored, [req |-> q, res |-> res, at |-> time])
    /\ UNCHANGED <<time, run, tasks, last>>
    /\ UNCHANGED <<tlsVars, codecVars, udpVars, startVars>>

NextOverwrite ==
    \/ \E res \in Replies : Set(Asked, res)
    \/ \E res \in Replies : Overwrite(Asked, res)
    \/ Get(Asked)
    \/ Tick

SpecOverwrite == InitCache /\ [][NextOverwrite]_vars

-----------------------------------------------------------------------------
(* App (app.rs): the receive loop and the tasks it spawns.  A task is      *)
(* [req, addr, via, st, buf]: the datagram and its sender, whether forward *)
(* made EitherBuf::Cache or EitherBuf::Req of it, where _forward stands    *)
(* ("proxy" awaiting proxy_dyn, "send" awaiting send_to, then "sent",      *)
(* "failed" or "panicked") and the bytes it holds; to is an observer, the  *)
(* address send_to was given once it has returned Ok.                      *)

\* App::forward (app.rs:74-86) once Cache::get has returned g
forward(g, d, addr) ==
    IF g.v # None
    THEN [req |-> d, addr |-> addr, via |-> "cache", st |-> "send",
          buf |-> g.v[1], to |-> None]
    ELSE [req |-> d, addr |-> addr, via |-> "upstream", st |-> "proxy",
          buf |-> d, to |-> None]

\* a test that lets only a refused connection pass
connection_error_refusedOnly(e) == e = "ConnectionRefused"

\* connection_error (app.rs:127-131)
connection_error(e) ==
    e \in {"ConnectionRefused", "ConnectionAborted", "ConnectionReset"}

ErrorKinds == {"ConnectionRefused", "ConnectionAborted", "ConnectionReset", "Other"}

\* a loop that waits for the tasks it spawned before it receives again
Recv_awaitsTasks(d, addr) ==
    /\ \A i \in DOMAIN tasks : tasks[i].st \notin {"proxy", "send"}
    /\ run = "running"
    /\ Len(tasks) < MaxReqs
    /\ \E g \in {CacheGet(inner, time, d)} :
        IF g.r # "ok"
        THEN /\ run' = (IF g.r = "panic" THEN "panicked" ELSE "hung")
             /\ tasks' = tasks
             /\ last' = last
        ELSE /\ run' = run
             /\ tasks' = Append(tasks, forward(g, d, addr))
             /\ last' = Some(Got(d, g.v))
    /\ UNCHANGED <<inner, time, stored>>
    /\ UNCHANGED <<tlsVars, codecVars, udpVars, startVars>>

\* recv_from returns Ok((len, addr)) (app.rs:33-34): forward runs Cache::get
\* in the loop itself, so a get that does not return takes the loop with it
Recv(d, addr) ==
    /\ run = "running"
    /\ Len(tasks) < MaxReqs
    /\ \E g \in {CacheGet(inner, time, d)} :
        IF g.r # "ok"
        THEN /\ run' = (IF g.r = "panic" THEN "panicked" ELSE "hung")
             /\ tasks' = tasks
             /\ last' = last
        ELSE /\ run' = run
             /\ tasks' = Append(tasks, forward(g, d, addr))
             /\ last' = Some(Got(d, g.v))
    /\ UNCHANGED <<inner, time, stored>>
    /\ UNCHANGED <<tlsVars, codecVars, udpVars, startVars>>

\* recv_from returns Err (app.rs:35-36): the loop goes on after a
\* connection error and run returns the error otherwise
RecvErr(e) ==
    /\ run = "running"
    /\ run' = (IF connection_error(e) THEN run ELSE e)
    /\ UNCHANGED <<inner, time, tasks, stored, last>>
    /\ UNCHANGED <<tlsVars, codecVars, udpVars, startVars>>

\* _forward, proxy_dyn returns Ok(res) (app.rs:92-94): Cache::set, and the
\* response is what the task will send
ProxyOk(i, res) ==
    /\ run = "running"
    /\ tasks[i].st = "proxy"
    /\ \E s \in {CacheSet(inner, time, res)} :
        IF s.r # "ok"
        THEN /\ tasks' = [tasks EXCEPT ![i].st = "panicked"]
             /\ UNCHANGED <<inner, stored>>
        ELSE /\ tasks' = [tasks EXCEPT ![i].st = "send", ![i].buf = res]
             /\ inner' = s.inner
             /\ stored' = Append(stored, [req |-> tasks[i].req, res |-> res,
                                          at |-> time])
    /\ UNCHANGED <<time, run, last>>
    /\ UNCHANGED <<tlsVars, codecVars, udpVars, startVars>>

\* a failed call after which the task goes on to send_to with the bytes it
\* holds
ProxyErr_sendsRequest(i) ==
    /\ run = "running"
    /\ tasks[i].st = "proxy"
    /\ tasks' = [tasks EXCEPT ![i].st = "send"]
    /\ UNCHANGED <<inner, time, run, stored, last>>
    /\ UNCHANGED <<tlsVars, codecVars, udpVars, startVars>>

\* _forward, proxy_dyn returns Err (app.rs:92): the task ends, the error is
\* logged (app.rs:82-84)
ProxyErr(i) ==
    /\ run = "running"
    /\ tasks[i].st = "proxy"
    /\ tasks' = [tasks EXCEPT ![i].st = "failed"]
    /\ UNCHANGED <<inner, time, run, stored, last>>
    /\ UNCHANGED <<tlsVars, codecVars, udpVars, startVars>>

\* a send_to addressed to the sender of the datagram received last
Send_toLatest(i, ok) ==
    /\ run = "running"
    /\ tasks[i].st = "send"
    /\ tasks' = [tasks EXCEPT ![i].st = IF ok THEN "sent" ELSE "failed",
                              ![i].to = IF ok THEN Some(tasks[Len(tasks)].addr)
                                        ELSE None]
    /\ UNCHANGED <<inner, time, run, stored, last>>
    /\ UNCHANGED <<tlsVars, codecVars, udpVars, startVars>>

\* _forward, send_to returns (app.rs:97-98); the address is the one forward
\* was called with, moved into the task (app.rs:81-82)
Send(i, ok) ==
    /\ run = "running"
    /\ tasks[i].st = "send"
    /\ tasks' = [tasks EXCEPT ![i].st = IF ok THEN "sent" ELSE "failed",
                              ![i].to = IF ok THEN Some(tasks[i].addr)
                                        ELSE None]
    /\ UNCHANGED <<inner, time, run, stored, last>>
    /\ UNCHANGED <<tlsVars, codecVars, udpVars, startVars>>

\* the datagrams the listener receives
Arrivals == {Asked, Short}

NextApp ==
    \/ \E d \in Arrivals, addr \in Addrs : Recv(d, addr)
    \/ \E e \in ErrorKinds : RecvErr(e)
    \/ \E i \in DOMAIN tasks : \E res \in Replies : ProxyOk(i, res)
    \/ \E i \in DOMAIN tasks : ProxyErr(i)
    \/ \E i \in DOMAIN tasks, ok \in BOOLEAN : Send(i, ok)
    \/ Tick

InitApp == InitTls

SpecApp == InitApp /\ [][NextApp]_vars

\* the clients of the scenario with several of them
Clients == {"client", "other"}

\* the response the upstream gives in that scenario: one address
OneAddress == Reply(<<RecA(NameA, Addr1, MaxTtl)>>)

\* the dispatcher serving two clients that ask the same question
NextDispatch ==
    \/ \E addr \in Clients : Recv(Asked, addr)
    \/ \E i \in DOMAIN tasks : ProxyOk(i, OneAddress)
    \/ \E i \in DOMAIN tasks : ProxyErr(i)
    \/ \E i \in DOMAIN tasks, ok \in BOOLEAN : Send(i, ok)
    \/ Tick

SpecDispatch == InitApp /\ [][NextDispatch]_vars

-----------------------------------------------------------------------------
(* DnsPacket::read alone, on buffers as a peer may send them                *)

\* the buffers cut short: every proper or improper prefix of b
Prefixes(b) == {Take(b, n) : n \in 0..Len(b)}

\* b with the two bytes at offset i (from 0) replaced by the u16 n
Patch(b, i, n) == Take(b, i) \o U16ToBe(n) \o Drop(b, i + 2)

\* b filled with zero bytes up to the 512 bytes of the listener's buffer
Padded(b) == b \o [k \in 1..(BufLimit - Len(b)) |-> 0]

\* a response with an alias and an address, its name written in full twice
Sample == Reply(<<RecCNAME(NameA, NameB, MaxTtl), RecA(NameB, Addr1, 1)>>)

\* a response that counts two answers and carries one, of a type the codec
\* skips (99) with the data length n: the type is at offset 22, the data
\* length at offset 30
Skipping(n) ==
    Patch(Patch(Patch(Reply(<<RecA(NameA, Addr1, 1)>>), 6, 2), 22, 99), 30, n)

\* the names written at offset 12: one label, two labels, an upper-case label
QNames == {NameA, NameA \o <<Dot>> \o NameB, <<65>>}

\* the two bytes of a compression pointer to the offset off
Ptr(off) == <<192 + (off \div 256), off % 256>>

\* an address record of NameA's class and TTL whose name is the pointer to
\* the offset off
PointedRec(off) == Ptr(off) \o <<0, 1, 0, 1, 0, 0, 0, MaxTtl, 0, 4>> \o Addr1

\* the query q turned into a message with two answers: the name of the
\* first is a pointer to the question's name (offset 12), the name of the
\* second a pointer to that pointer
Compressed(q) == Patch(q, 6, 2) \o PointedRec(12) \o PointedRec(Len(q))

\* such a message for each of the names
CompressedInputs == {Compressed(Bytes(Query(1, n, "A"))) : n \in QNames}

\* the buffers given to DnsPacket::read: messages cut short at every length,
\* headers that count more questions or answers than follow, a data length
\* and a name pointer that lead past the data, full 512-byte buffers, and
\* messages with compressed names
DecodeInputs ==
    Prefixes(Sample)
    \cup Prefixes(Bytes([Packet(Bytes(Query(2, NameB, "AAAA")))
                            EXCEPT !.answers = <<RecAAAA(NameB, Seg1, MaxTtl)>>]))
    \cup {Patch(Asked, 4, 2), Patch(Reply(<<>>), 6, 1),
          Skipping(100), Skipping(600),
          Take(Asked, 12) \o <<192, 100, 0, 1, 0, 1>>,
          Padded(Asked), Padded(Skipping(100))}
    \cup CompressedInputs

\* DnsPacket::read (dns.rs:629-652) on the buffer given
Decode ==
    /\ codecOut = None
    /\ codecOut' = Some(DnsPacketRead(codecIn))
    /\ UNCHANGED <<codecIn, tlsVars, appVars, udpVars, startVars>>

NextDecode == Decode

InitDecode ==
    /\ TlsNew
    /\ AppNew
    /\ UdpNew
    /\ StartNew
    /\ codecIn \in DecodeInputs
    /\ codecOut = None

SpecDecode == InitDecode /\ [][NextDecode]_vars

-----------------------------------------------------------------------------
(* DnsPacket::write followed by DnsPacket::read of what it wrote            *)

RecNS(n, host, t) == [t |-> "NS", domain |-> n, host |-> host, ttl |-> t]
RecMX(n, priority, host, t) ==
    [t |-> "MX", domain |-> n, priority |-> priority, host |-> host, ttl |-> t]

\* a label of n bytes, all `x`
Label(n) == [i \in 1..n |-> 120]

\* the names given to the codec: the root, one label, one label and a
\* trailing dot, two labels, an upper-case label, and labels of 52, 53 and
\* 63 bytes
CodecNames ==
    {<<>>, NameA, NameA \o <<Dot>>, NameA \o <<Dot>> \o NameB, <<65>>,
     Label(52), Label(53), Label(63)}

\* the records of each supported type owned by the name n
CodecRecords(n) ==
    {RecA(n, Addr1, MaxTtl), RecAAAA(n, Seg1, MaxTtl), RecNS(n, NameB, MaxTtl),
     RecCNAME(n, NameB, MaxTtl), RecMX(n, 10, NameB, MaxTtl),
     RecCNAME(NameB, n, MaxTtl)}

\* the packet p with the counts of its header set as DnsPacket::read leaves
\* them: the lengths of its sections
Counted(p) ==
    [p EXCEPT !.header.questions = Len(p.questions),
              !.header.answers = Len(p.answers)]

\* the packets given to the codec: a query for each name, and a response
\* with one record of each kind for each name
CodecInputs ==
    {Counted(Query(1, n, "A")) : n \in CodecNames}
    \cup {Counted([Query(1, NameA, "A") EXCEPT !.header.response = TRUE,
                                              !.answers = <<rec>>]) :
          rec \in UNION {CodecRecords(n) : n \in CodecNames}}

\* DnsPacket::write (dns.rs:654-676) of the packet given, into a fresh
\* 512-byte buffer
Encode ==
    /\ codecOut = None
    /\ codecOut' = Some([enc |-> DnsPacketWrite(WNew, codecIn), dec |-> None])
    /\ UNCHANGED <<codecIn, tlsVars, appVars, udpVars, startVars>>

\* DnsPacket::read (dns.rs:629-652) of the bytes written
DecodeBack ==
    /\ codecOut # None
    /\ codecOut[1].enc.r = "ok"
    /\ codecOut[1].dec = None
    /\ codecOut' = Some([codecOut[1] EXCEPT
                            !.dec = Some(DnsPacketRead(codecOut[1].enc.bytes))])
    /\ UNCHANGED <<codecIn, tlsVars, appVars, udpVars, startVars>>

NextCodec ==
    \/ Encode
    \/ DecodeBack

InitCodec ==
    /\ TlsNew
    /\ AppNew
    /\ UdpNew
    /\ StartNew
    /\ codecIn \in CodecInputs
    /\ codecOut = None

SpecCodec == InitCodec /\ [][NextCodec]_vars

-----------------------------------------------------------------------------
(* DnsPacket::write of packets that hold records of types the codec does    *)
(* not know, as DnsPacket::read leaves them in a packet                     *)

\* DnsRecord::UNKNOWN as read from a record of the type qtype (dns.rs:495-503)
RecUnknown(n, qtype, t) ==
    [t |-> "UNKNOWN", domain |-> n, qtype |-> qtype, data_len |-> 0, ttl |-> t]

\* the most records in the answer section of a packet written
MaxAnswers == 2

\* the records the sections are filled from: an address, an alias, a TXT
\* record (type 16) and the OPT record of EDNS (type 41)
SectionRecords ==
    {RecA(NameA, Addr1, MaxTtl), RecCNAME(NameA, NameB, MaxTtl),
     RecUnknown(NameA, 16, MaxTtl), RecUnknown(<<>>, 41, 0)}

\* the packets written: a response to Asked with up to MaxAnswers answers
\* and at most one additional record
CountInputs ==
    {[Query(1, NameA, "A") EXCEPT !.header.response = TRUE,
                                  !.answers = an, !.resources = rs] :
        an \in SeqsUpTo(SectionRecords, MaxAnswers),
        rs \in SeqsUpTo(SectionRecords, 1)}

InitCounts ==
    /\ TlsNew
    /\ AppNew
    /\ UdpNew
    /\ StartNew
    /\ codecIn \in CountInputs
    /\ codecOut = None

NextCounts ==
    \/ Encode
    \/ DecodeBack

SpecCounts == InitCounts /\ [][NextCounts]_vars

-----------------------------------------------------------------------------
(* DnsHeader::write followed by DnsHeader::read                             *)

\* the 16-bit fields of the headers written: the id and the four counts,
\* all zero or with every byte pattern among them
HeaderNumbers == {<<0, 0, 0, 0, 0>>, <<65535, 1, 256, 255, 65534>>}

\* the headers written: every combination of the eight flags, every opcode
\* of 4 bits and each of the six result codes
Headers ==
    {[id |-> n[1], recursion_desired |-> f[1], truncated_message |-> f[2],
      authoritative_answer |-> f[3], opcode |-> op, response |-> f[4],
      rescode |-> rc, checking_disabled |-> f[5], authed_data |-> f[6],
      z |-> f[7], recursion_available |-> f[8], questions |-> n[2],
      answers |-> n[3], authoritative_entries |-> n[4],
      resource_entries |-> n[5]] :
        n \in HeaderNumbers, f \in [1..8 -> BOOLEAN], op \in 0..15, rc \in 0..5}

\* the 12 bytes b of a header with the low four bits of the second flag
\* byte (offset 3) set to c, as a peer may send them
WithRescode(b, c) == [b EXCEPT ![4] = (@ \div 16) * 16 + c]

\* DnsHeader::write (dns.rs:275-298) into a fresh buffer
WriteHeader ==
    /\ codecOut = None
    /\ codecOut' = Some([enc |-> DnsHeaderWrite(WNew, codecIn), foreign |-> 0,
                         dec |-> None])
    /\ UNCHANGED <<codecIn, tlsVars, appVars, udpVars, startVars>>

\* DnsHeader::read (dns.rs:248-273) of the bytes written
ReadHeader ==
    /\ codecOut # None
    /\ codecOut[1].dec = None
    /\ codecOut' = Some([codecOut[1] EXCEPT
                            !.dec = Some(DnsHeaderRead(codecOut[1].enc.bytes, 0))])
    /\ UNCHANGED <<codecIn, tlsVars, appVars, udpVars, startVars>>

\* DnsHeader::read of a peer's header: the bytes written for a header with
\* the result code 0, but with the code c, which has no name, in its place
ReadForeign(c) ==
    /\ codecOut # None
    /\ codecOut[1].dec = None
    /\ codecIn.rescode = 0
    /\ codecOut' = Some([codecOut[1] EXCEPT
                            !.foreign = c,
                            !.dec = Some(DnsHeaderRead(
                                        WithRescode(codecOut[1].enc.bytes, c), 0))])
    /\ UNCHANGED <<codecIn, tlsVars, appVars, udpVars, startVars>>

NextHeader ==
    \/ WriteHeader
    \/ ReadHeader
    \/ \E c \in 6..15 : ReadForeign(c)

InitHeader ==
    /\ TlsNew
    /\ AppNew
    /\ UdpNew
    /\ StartNew
    /\ codecIn \in Headers
    /\ codecOut = None

SpecHeader == InitHeader /\ [][NextHeader]_vars

-----------------------------------------------------------------------------
(* DnsBuf::read_qname alone, on names with compression pointers             *)

\* the twelve bytes of a header, which no name overlaps
Hdr12 == [i \in 1..12 |-> 0]

\* where the pieces of QnameBuf start for a name whose wire form has n
\* bytes: the name, the first pointer, the second pointer, the label `b`
\* that the third pointer follows
Offsets(n) == {12, 12 + n, 14 + n, 16 + n}

\* a message body: a name in full at offset 12, then two pointers, then a
\* label followed by a pointer; the pointers may point at the name, at one
\* another, at themselves or at the label
QnameBuf(w, t1, t2, t3) ==
    Hdr12 \o w \o Ptr(t1) \o Ptr(t2) \o <<1, 98>> \o Ptr(t3)

\* the calls of read_qname: every choice of the three targets and of the
\* cursor among the offsets of the pieces
QnameInputs ==
    UNION {{[buf |-> QnameBuf(w, t1, t2, t3), pos |-> p] :
                t1 \in Offsets(Len(w)), t2 \in Offsets(Len(w)),
                t3 \in Offsets(Len(w)), p \in Offsets(Len(w))} :
           w \in {write_qname(WNew, n).bytes : n \in QNames}}

\* read_qname (dns.rs:72-120) called with the cursor at codecIn.pos
ReadName ==
    /\ codecOut = None
    /\ codecOut' = Some(read_qname(codecIn.buf, codecIn.pos))
    /\ UNCHANGED <<codecIn, tlsVars, appVars, udpVars, startVars>>

NextQname == ReadName

InitQname ==
    /\ TlsNew
    /\ AppNew
    /\ UdpNew
    /\ StartNew
    /\ codecIn \in QnameInputs
    /\ codecOut = None

SpecQname == InitQname /\ [][NextQname]_vars

-----------------------------------------------------------------------------
(* DnsBuf::write_qname alone, on labels of every length                     *)

\* the longest label tried
MaxTried == 64

\* the names written: a label of each length alone, before a short label
\* and after one
LabelNames ==
    UNION {{Label(n), Label(n) \o <<Dot>> \o NameA, NameA \o <<Dot>> \o Label(n)} :
           n \in 1..MaxTried}

\* write_qname (dns.rs:147-160) into a fresh 512-byte buffer
WriteName ==
    /\ codecOut = None
    /\ codecOut' = Some(write_qname(WNew, codecIn))
    /\ UNCHANGED <<codecIn, tlsVars, appVars, udpVars, startVars>>

NextLabel == WriteName

InitLabel ==
    /\ TlsNew
    /\ AppNew
    /\ UdpNew
    /\ StartNew
    /\ codecIn \in LabelNames
    /\ codecOut = None

SpecLabel == InitLabel /\ [][NextLabel]_vars

-----------------------------------------------------------------------------
(* UdpProxy::proxy (proxy/udp.rs:27-43) called concurrently. The calls are  *)
(* counted per await they are parked at. A permit that is given back goes   *)
(* to the call that waits longest in acquire, if there is one, as tokio's   *)
(* Semaphore does.                                                          *)

\* the calls the model parks in acquire at once
MaxWaiting == 1

\* the calls that hold a permit
Holding == at[1] + at[2] + at[3] + at[4]

\* proxy is called (proxy/udp.rs:28): the call takes a permit and goes on to
\* bind, or it parks in acquire when none is available
Call ==
    /\ IF permit > 0
       THEN /\ permit' = permit - 1
            /\ at' = [at EXCEPT ![1] = @ + 1]
            /\ UNCHANGED waiting
       ELSE /\ waiting < MaxWaiting
            /\ waiting' = waiting + 1
            /\ UNCHANGED <<permit, at>>
    /\ UNCHANGED <<resolveVars, tlsVars, appVars, codecVars, startVars>>

\* the future of a call parked in acquire is dropped (proxy/udp.rs:28)
CancelWaiting ==
    /\ waiting > 0
    /\ waiting' = waiting - 1
    /\ UNCHANGED <<permit, at>>
    /\ UNCHANGED <<resolveVars, tlsVars, appVars, codecVars, startVars>>

\* the await k of a call returns Ok and the call goes on to the next one:
\* bind and connect (proxy/udp.rs:30-31), send (proxy/udp.rs:33)
Advance(k) ==
    /\ k < Len(Awaits)
    /\ at[k] > 0
    /\ at' = [at EXCEPT ![k] = @ - 1, ![k + 1] = @ + 1]
    /\ UNCHANGED <<permit, waiting>>
    /\ UNCHANGED <<resolveVars, tlsVars, appVars, codecVars, startVars>>

\* _permit is dropped (proxy/udp.rs:28, 43) by a call parked at the await k:
\* the permit goes to the call waiting in acquire, which goes on to bind,
\* or back to the semaphore
Release(k) ==
    /\ at[k] > 0
    /\ IF waiting > 0
       THEN /\ waiting' = waiting - 1
            /\ at' = [[at EXCEPT ![k] = @ - 1] EXCEPT ![1] = @ + 1]
            /\ UNCHANGED permit
       ELSE /\ permit' = permit + 1
            /\ at' = [at EXCEPT ![k] = @ - 1]
            /\ UNCHANGED waiting
    /\ UNCHANGED <<resolveVars, tlsVars, appVars, codecVars, startVars>>

\* recv returns Ok(n): the buffer is truncated and returned
\* (proxy/udp.rs:37-41)
RecvOk == Release(Len(Awaits))

\* the await k returns Err and `?` returns it (proxy/udp.rs:30-37)
Fail(k) == Release(k)

\* a future dropped without giving its permit back
Cancel_keepsPermit(k) ==
    /\ at[k] > 0
    /\ at' = [at EXCEPT ![k] = @ - 1]
    /\ UNCHANGED <<permit, waiting>>
    /\ UNCHANGED <<resolveVars, tlsVars, appVars, codecVars, startVars>>

\* the future of a call parked at the await k is dropped (proxy/udp.rs:30-37)
Cancel(k) == Release(k)

NextPermits ==
    \/ Call
    \/ CancelWaiting
    \/ \E k \in DOMAIN Awaits : Advance(k)
    \/ RecvOk
    \/ \E k \in DOMAIN Awaits : Fail(k)
    \/ \E k \in DOMAIN Awaits : Cancel(k)

InitPermits == InitTls

SpecPermits == InitPermits /\ [][NextPermits]_vars

\* the calls the model lets be on their way to recv at once
MaxStarting == 2

\* the calls that hold a permit and have not sent their request yet
Starting == at[1] + at[2] + at[3]

\* the same calls, arriving at most MaxStarting at a time
NextLoss ==
    \/ Starting < MaxStarting /\ Call
    \/ CancelWaiting
    \/ \E k \in DOMAIN Awaits : Advance(k)
    \/ RecvOk
    \/ \E k \in DOMAIN Awaits : Fail(k)
    \/ \E k \in DOMAIN Awaits : Cancel(k)

\* the calls under a runtime that keeps polling them: bind, connect and send
\* on a local UDP socket complete, so a call parked at one of them goes on.
\* Nothing makes a reply arrive: recv has no timeout (proxy/udp.rs:37) and
\* the task that calls proxy is detached (app.rs:81), so a call parked at
\* recv may stay there.
FairLoss ==
    /\ InitPermits
    /\ [][NextLoss]_vars
    /\ \A k \in 1..(Len(Awaits) - 1) : WF_vars(Advance(k))

-----------------------------------------------------------------------------
(* The loop of udp_resolve (proxy/udp.rs:79-91): one call, and the          *)
(* bootstrap server that answers it, late, badly or never. Time is counted  *)
(* in seconds.                                                              *)

\* Duration::from_secs(2) (proxy/udp.rs:82)
WaitSecs == 2

\* `retry > 10` (proxy/udp.rs:86)
RetryLimit == 10

\* send_buf (proxy/udp.rs:77): the question for the host's A record, written
\* once before the loop
send_buf == Bytes([DnsPacketNew EXCEPT
                    !.questions = <<DnsQuestionNew(NameA, QueryType("A"))>>])

\* what recv may return within the timeout: the length of a datagram, or an
\* error
RecvResults ==
    {[r |-> "ok", len |-> Len(Reply(<<>>)), e |-> "none"],
     [r |-> "ok", len |-> Len(Reply(<<RecA(NameA, Addr1, MaxTtl)>>)), e |-> "none"],
     [r |-> "err", len |-> 0, e |-> "ConnectionRefused"]}

\* socket.send returns Ok (proxy/udp.rs:80) and the timeout of recv starts
SendDone ==
    /\ resolve = "send"
    /\ sends' = Append(sends, send_buf)
    /\ resolve' = "recv"
    /\ waited' = 0
    /\ UNCHANGED <<retry, elapsed, resolved>>
    /\ UNCHANGED <<permitVars, tlsVars, appVars, codecVars, startVars>>

\* socket.send returns Err and `?` returns it (proxy/udp.rs:80)
SendFailed ==
    /\ resolve = "send"
    /\ resolve' = "done"
    /\ resolved' = Some([r |-> "err", len |-> 0, e |-> "send"])
    /\ UNCHANGED <<retry, sends, waited, elapsed>>
    /\ UNCHANGED <<permitVars, tlsVars, appVars, codecVars, startVars>>

\* a second passes while recv is pending (proxy/udp.rs:82)
Second ==
    /\ resolve = "recv"
    /\ waited < WaitSecs
    /\ waited' = waited + 1
    /\ elapsed' = elapsed + 1
    /\ UNCHANGED <<resolve, retry, sends, resolved>>
    /\ UNCHANGED <<permitVars, tlsVars, appVars, codecVars, startVars>>

\* recv returns within the timeout: `Ok(res) => break res?`
\* (proxy/udp.rs:83), the loop ends with the length or run returns the error
Received(res) ==
    /\ resolve = "recv"
    /\ resolve' = "done"
    /\ resolved' = Some(res)
    /\ UNCHANGED <<retry, sends, waited, elapsed>>
    /\ UNCHANGED <<permitVars, tlsVars, appVars, codecVars, startVars>>

\* a timeout that allows one retransmission more
Elapsed_oneMore ==
    /\ resolve = "recv"
    /\ waited = WaitSecs
    /\ retry' = retry + 1
    /\ IF retry' > RetryLimit + 1
       THEN /\ resolve' = "done"
            /\ resolved' = Some([r |-> "err", len |-> 0, e |-> "TimedOut"])
       ELSE /\ resolve' = "send"
            /\ UNCHANGED resolved
    /\ UNCHANGED <<sends, waited, elapsed>>
    /\ UNCHANGED <<permitVars, tlsVars, appVars, codecVars, startVars>>

\* a timeout that gives up as soon as retry reaches the limit
Elapsed_atLimit ==
    /\ resolve = "recv"
    /\ waited = WaitSecs
    /\ retry' = retry + 1
    /\ IF retry' >= RetryLimit
       THEN /\ resolve' = "done"
            /\ resolved' = Some([r |-> "err", len |-> 0, e |-> "TimedOut"])
       ELSE /\ resolve' = "send"
            /\ UNCHANGED resolved
    /\ UNCHANGED <<sends, waited, elapsed>>
    /\ UNCHANGED <<permitVars, tlsVars, appVars, codecVars, startVars>>

\* the timeout elapses: `Err(_)` (proxy/udp.rs:84-89), retry is counted and
\* the loop sends again, or returns TimedOut once retry is over the limit
Elapsed ==
    /\ resolve = "recv"
    /\ waited = WaitSecs
    /\ retry' = retry + 1
    /\ IF retry' > RetryLimit
       THEN /\ resolve' = "done"
            /\ resolved' = Some([r |-> "err", len |-> 0, e |-> "TimedOut"])
       ELSE /\ resolve' = "send"
            /\ UNCHANGED resolved
    /\ UNCHANGED <<sends, waited, elapsed>>
    /\ UNCHANGED <<permitVars, tlsVars, appVars, codecVars, startVars>>

NextResolve ==
    \/ SendDone
    \/ SendFailed
    \/ Second
    \/ \E res \in RecvResults : Received(res)
    \/ Elapsed

InitResolve == InitTls

SpecResolve == InitResolve /\ [][NextResolve]_vars

-----------------------------------------------------------------------------
(* App::try_from_config choosing the upstream with try_iter                 *)
(* (app.rs:46-65, 109-125). An entry is known by its place in the list.     *)

\* the longest upstream_addr of the scenario
MaxEntries == 3

\* UpstreamVariant (config.rs:71-76)
UpstreamVariant == {"Udp", "Tls", "Https"}

\* the lists the argument parser lets through: at least one entry
\* (config.rs:41)
Configs == SeqsUpTo(UpstreamVariant, MaxEntries) \ {<<>>}

\* whether the constructor of an entry of the kind k can fail:
\* UdpProxy::try_from_addr returns Ok always (proxy/udp.rs:18-23)
Fallible(k) == k # "Udp"

\* the constructor of the next entry returns Ok and try_iter returns it
\* (app.rs:119-120)
ConstructOk ==
    /\ chosen = None
    /\ iter < Len(upstream_addr)
    /\ iter' = iter + 1
    /\ constructed' = Append(constructed, [entry |-> iter + 1, ok |-> TRUE])
    /\ chosen' = Some([r |-> "ok", entry |-> iter + 1])
    /\ UNCHANGED <<upstream_addr, err>>
    /\ UNCHANGED <<tlsVars, appVars, codecVars, udpVars>>

\* a loop that keeps the first error it met
ConstructErr_keepsFirst ==
    /\ chosen = None
    /\ iter < Len(upstream_addr)
    /\ Fallible(upstream_addr[iter + 1])
    /\ iter' = iter + 1
    /\ constructed' = Append(constructed, [entry |-> iter + 1, ok |-> FALSE])
    /\ err' = (IF err = None THEN Some(iter + 1) ELSE err)
    /\ UNCHANGED <<upstream_addr, chosen>>
    /\ UNCHANGED <<tlsVars, appVars, codecVars, udpVars>>

\* the constructor of the next entry returns Err: the error is kept and the
\* loop goes on (app.rs:121)
ConstructErr ==
    /\ chosen = None
    /\ iter < Len(upstream_addr)
    /\ Fallible(upstream_addr[iter + 1])
    /\ iter' = iter + 1
    /\ constructed' = Append(constructed, [entry |-> iter + 1, ok |-> FALSE])
    /\ err' = Some(iter + 1)
    /\ UNCHANGED <<upstream_addr, chosen>>
    /\ UNCHANGED <<tlsVars, appVars, codecVars, udpVars>>

\* the iterator is exhausted: Err(err.unwrap()) (app.rs:125); err is Some,
\* the list having an entry
Exhausted ==
    /\ chosen = None
    /\ iter = Len(upstream_addr)
    /\ chosen' = Some([r |-> "err", entry |-> err[1]])
    /\ UNCHANGED <<upstream_addr, iter, err, constructed>>
    /\ UNCHANGED <<tlsVars, appVars, codecVars, udpVars>>

NextStart ==
    \/ ConstructOk
    \/ ConstructErr
    \/ Exhausted

InitStart ==
    /\ TlsNew
    /\ AppNew
    /\ CodecNew
    /\ UdpNew
    /\ upstream_addr \in Configs
    /\ iter = 0
    /\ err = None
    /\ constructed = <<>>
    /\ chosen = None

SpecStart == InitStart /\ [][NextStart]_vars

-----------------------------------------------------------------------------
(* Properties of the DoT engine *)

\* C1: on one connection the k-th frame the upstream sent is what the sink
\* of the k-th encoded submission gets, byte for byte and in FIFO order, and
\* no sink is ever given more than one response.
C1_FifoOrder ==
    /\ \A k \in 1..Len(delivLog) :
        /\ k <= Len(subs)
        /\ k <= Len(sentFrames)
        /\ delivLog[k] = <<subs[k], sentFrames[k]>>
        /\ sink[subs[k]].st = "ok"
        /\ sink[subs[k]].val = sentFrames[k]
    /\ \A s \in Sinks :
        /\ sink[s].n <= 1
        /\ sink[s].st = "ok" <=> sink[s].n = 1

\* two submissions of one connection were answered, with different payloads
C1_Witness ==
    /\ Len(delivLog) >= 2
    /\ delivLog[1][2] # delivLog[2][2]
    /\ delivLog[1][1] # delivLog[2][1]

\* a step in which pipeline_io returns Err: only a failed read leads from
\* either loop to wait_for_reconnect
ReadFailure == pc \in {"io", "drain"} /\ pc' = "wait_reconnect"

\* the sinks a step handed a response to
Answered == {delivLog'[k][1] : k \in (Len(delivLog) + 1)..Len(delivLog')}

\* C2: when the stream reports a read error or a close, every sink still in
\* the FIFO is dropped unanswered and len and both buffers are cleared before
\* the engine waits or reconnects; a dropped sink never gets a response later.
C2_ResetOnStreamFailure ==
    /\ [](pc = "wait_reconnect" =>
            len = None /\ buf_read = <<>> /\ buf_write = <<>> /\ queue = <<>>)
    /\ [][/\ ReadFailure =>
                \A s \in Range(queue) \ Answered :
                    sink'[s].st = "err" /\ sink'[s].n = 0
          /\ \A s \in Sinks : sink[s].st = "err" => sink'[s] = sink[s]]_vars

\* a stream failure found a sink in the FIFO and dropped it
C2_Witness ==
    /\ pc = "wait_reconnect"
    /\ \E s \in Range(subs) : sink[s].st = "err"

\* C3 as stated: the submission accepted by wait_for_reconnect keeps waiting
\* for its response however many connect attempts fail.
C3_SurvivesConnectFailures ==
    (pc \in {"connecting", "sleep"} /\ recov # None) => sink[recov[1]].st = "waiting"

\* C3 amended: after the reset that follows a stream failure the next
\* submission is encoded normally (its frame alone in the write buffer, its
\* sink alone in the FIFO); if the connect attempt that follows succeeds, the
\* first frame decoded on the new connection goes to its sink; if the attempt
\* fails, the engine resets again and the sink is dropped.
C3_Recovery ==
    /\ [][/\ (pc = "wait_reconnect" /\ pc' = "connecting") =>
                /\ buf_write' = Frame(Head(rx)[1])
                /\ queue' = <<Head(rx)[2]>>
                /\ len' = None /\ buf_read' = <<>>
                /\ sink'[Head(rx)[2]].st = "waiting"
          /\ (pc = "connecting" /\ pc' = "sleep") =>
                /\ queue' = <<>> /\ buf_write' = <<>>
                /\ \A s \in Range(queue) : sink'[s].st = "err"
          /\ (pc = "connecting" /\ pc' = "io") =>
                queue' = queue /\ buf_write' = buf_write]_vars
    /\ []((recov # None /\ subs # <<>> /\ delivLog # <<>> /\ subs[1] = recov[1]) =>
            /\ sentFrames # <<>>
            /\ delivLog[1] = <<recov[1], sentFrames[1]>>
            /\ sink[recov[1]] = [st |-> "ok", val |-> sentFrames[1], n |-> 1])

\* the submission accepted during recovery got the first response of the
\* connection established after it
C3_Witness ==
    /\ recov # None
    /\ delivLog # <<>>
    /\ delivLog[1][1] = recov[1]
    /\ sink[recov[1]].st = "ok"

\* C4 as stated: every request the engine accepted is eventually answered or
\* its sink dropped.
C4_ResponseOrClosure ==
    \A s \in Sinks : (s \in Range(queue)) ~> (sink[s].st \in {"ok", "err"})

\* C24: the submission channel never holds more than its capacity; a call
\* that finds it full (or finds earlier callers queued for a slot) blocks
\* with its message, is neither dropped nor failed while the engine lives,
\* and once the engine has dequeued an item the first blocked caller's send
\* can complete, putting its message at the end of the channel.
C24_Backpressure ==
    /\ [](Len(rx) <= ChanCap)
    /\ []((Blocked # {} /\ Len(rx) < ChanCap) =>
            \E s \in Blocked : ENABLED Unblock(s))
    /\ [][\A s \in Sinks :
            /\ (/\ sink[s].st = "idle" /\ sink'[s].st # "idle"
                /\ pc \notin {"done", "panicked"}
                /\ Len(rx) >= ChanCap)
               => sink'[s].st = "sending" /\ rx' = rx
            /\ sink[s].st = "sending" =>
                \/ sink'[s] = sink[s]
                \/ /\ sink'[s].st = "waiting"
                   /\ Len(rx) < ChanCap
                   /\ rx' = Append(rx, <<sink[s].val, s>>)
                \/ /\ sink'[s].st = "err"
                   /\ pc' \in {"done", "panicked"}]_vars

\* a caller is blocked on the full channel's slot and the engine has just
\* taken the message ahead of it
C24_Witness ==
    /\ Blocked # {}
    /\ Len(rx) < ChanCap
    /\ pc = "io"
    /\ queue # <<>>

\* the submission channel is closed and empty and the engine is in the
\* second loop of pipeline_io with requests pending
Draining == pc = "drain" /\ ~tx_alive /\ rx = <<>> /\ queue # <<>>

\* C25 as stated: once the channel has closed with requests pending the
\* engine takes no new work and does not reconnect (from the second loop it
\* stays, or ends, or fails into wait_for_reconnect, which ends the task),
\* and every request in the FIFO gets its response unless the stream stops
\* being healthy.
C25_GracefulDrain ==
    /\ [][/\ Draining =>
                /\ pc' \in {"drain", "done", "wait_reconnect", "panicked"}
                /\ Range(queue') \subseteq Range(queue)
                /\ rx' = <<>>
          /\ (pc = "wait_reconnect" /\ ~tx_alive /\ rx = <<>>) =>
                pc' \in {"wait_reconnect", "done"}]_vars
    /\ \A s \in Sinks :
        (Draining /\ s \in Range(queue)) ~> (sink[s].st = "ok" \/ stream # "up")

\* C26 as stated: a step of the first loop in which the broken stream makes
\* the engine discard its unwritten request bytes is a recovery: the FIFO is
\* emptied, every sink in it dropped, and the engine goes to
\* wait_for_reconnect without another stream event.
C26_WriteErrorRecovers ==
    [][(pc = "io" /\ stream = "broken" /\ buf_write # <<>> /\ buf_write' = <<>>)
        => /\ pc' = "wait_reconnect"
           /\ queue' = <<>>
           /\ \A s \in Range(queue) \ Answered : sink'[s].st = "err"]_vars

\* C27 as stated: when decode returns, either no length is expected and
\* fewer than 2 bytes are buffered, or a length n is expected and fewer than
\* n bytes are buffered; every complete frame buffered, a zero-length one
\* included, has been delivered.
C27_FrameDecoding ==
    pc = "returned" =>
        \/ len = None /\ Len(buf_read) < 2
        \/ len # None /\ Len(buf_read) < len[1]

\* C28 as stated: decode never finds a complete frame with the FIFO empty,
\* so the engine task never aborts at queue.pop_front().unwrap(), even when
\* the upstream sends more frames than there are requests outstanding.
C28_NeverPopsEmpty == pc # "panicked"

\* C29 as stated: while the TlsProxy is alive the supervisor task has not
\* ended, and no call of proxy is rejected because the task is gone.
C29_EngineLifetime ==
    /\ [](tx_alive => pc \notin {"done", "panicked"})
    /\ [][\A s \in Sinks :
            (sink[s].st \in {"idle", "sending"} /\ sink'[s].st = "err") =>
                pc' \notin {"done", "panicked"}]_vars

-----------------------------------------------------------------------------
(* Properties of the cache *)

\* the message can be read
Decodable(bytes) == DnsPacketRead(bytes).r = "ok"

\* the question vector of a message: names and query types, in order
Key(bytes) == Packet(bytes).questions

\* the answers of a message
AnswersOf(bytes) == Packet(bytes).answers

\* the calls of Cache::set before the latest get whose response carries the
\* question vector of the datagram d
SetsFor(d) ==
    {k \in 1..last[1].n : Decodable(stored[k].res) /\ Key(stored[k].res) = Key(d)}

\* the latest of them
LatestSet(d) == stored[CHOOSE k \in SetsFor(d) : \A j \in SetsFor(d) : j <= k]

\* the smallest TTL among the answers of a response
MinTtl(bytes) ==
    CHOOSE t \in {a.ttl : a \in Range(AnswersOf(bytes))} :
        \A a \in Range(AnswersOf(bytes)) : t <= a.ttl

\* the latest get was a hit
Hit == last # None /\ last[1].out # None

\* C5: every answer of a cache hit was stored by a set of a response whose
\* question vector (names and query types) equals the query's, so that an
\* A query and an AAAA query for one name never share an entry.
C5_KeyedByQuestionVector ==
    Hit => \A a \in Range(AnswersOf(last[1].out[1])) :
              \E k \in SetsFor(last[1].req) : a \in Range(AnswersOf(stored[k].res))

\* C6: after set(r) of a response r with answers, while every TTL of r's
\* answers is greater than the elapsed time, a get for r's question vector
\* returns a response with as many answers as r has.
C6_AllAnswersReturned ==
    (/\ last # None
     /\ SetsFor(last[1].req) # {}
     /\ AnswersOf(LatestSet(last[1].req).res) # <<>>
     /\ \A a \in Range(AnswersOf(LatestSet(last[1].req).res)) :
            a.ttl > last[1].at - LatestSet(last[1].req).at)
    => /\ last[1].out # None
       /\ Len(AnswersOf(last[1].out[1])) = Len(AnswersOf(LatestSet(last[1].req).res))

\* C7: once the time elapsed since set(r) has reached the smallest TTL among
\* r's answers, a get for r's question vector returns None until the next
\* set for that key.
C7_ExpiresAtMinTtl ==
    (/\ last # None
     /\ SetsFor(last[1].req) # {}
     /\ AnswersOf(LatestSet(last[1].req).res) # <<>>
     /\ last[1].at - LatestSet(last[1].req).at >= MinTtl(LatestSet(last[1].req).res))
    => last[1].out = None

\* C8: the header of a cache hit has response and recursion_available set,
\* its answer count is the number of answers the reply carries, and its
\* other fields are those of the request.
C8_HitHeader ==
    Hit => \A q \in {Packet(last[1].req).header} :
           \A h \in {Packet(last[1].out[1]).header} :
              /\ h.response
              /\ h.recursion_available
              /\ h.answers = Len(AnswersOf(last[1].out[1]))
              /\ [h EXCEPT !.response = FALSE, !.recursion_available = FALSE,
                           !.answers = 0]
                 = [q EXCEPT !.response = FALSE, !.recursion_available = FALSE,
                             !.answers = 0]

\* the transaction id a datagram carries in its first two bytes
IdOf(bytes) == U16FromBe(Take(bytes, 2))

\* C9: a cache hit carries the 16-bit transaction id of the query it
\* answers, whatever the id of the query whose response filled the cache.
C9_IdPassThrough == Hit => IdOf(last[1].out[1]) = IdOf(last[1].req)

\* a hit for a query while every response stored so far carries another id
C9_Witness ==
    /\ Hit
    /\ last[1].n > 0
    /\ \A k \in 1..last[1].n : IdOf(stored[k].res) # IdOf(last[1].req)
    /\ AnswersOf(last[1].out[1]) # <<>>

\* C11: a get for a decodable query returns None when no response with the
\* query's question vector has been set, as on an empty cache, also for a
\* query whose header declares no question.
C11_MissReturnsNone ==
    (last # None /\ Decodable(last[1].req) /\ SetsFor(last[1].req) = {})
    => last[1].out = None

\* C12: after set(r1) and then set(r2) of two decodable responses with one
\* question vector, a get before r2 has expired returns exactly r2's
\* answers, aged from the second set.
C12_SetOverwrites ==
    (/\ last # None
     /\ Cardinality(SetsFor(last[1].req)) >= 2
     /\ \A a \in Range(AnswersOf(LatestSet(last[1].req).res)) :
            a.ttl > last[1].at - LatestSet(last[1].req).at)
    => /\ last[1].out # None
       /\ AnswersOf(last[1].out[1]) = AnswersOf(LatestSet(last[1].req).res)

-----------------------------------------------------------------------------
(* Properties of the dispatcher *)

\* the responses stored so far for the question vector of the datagram d
StoredFor(d) ==
    {k \in DOMAIN stored : Decodable(stored[k].res) /\ Key(stored[k].res) = Key(d)}

\* the latest of them
Entry(d) == stored[CHOOSE k \in StoredFor(d) : \A j \in StoredFor(d) : j <= k]

\* C10: once the upstream response to a query, with answers whose TTLs are
\* all positive, has been stored by set, an identical query received before
\* the smallest TTL has elapsed is answered from the cache and the upstream
\* is not invoked for it; one received after that is sent to the upstream.
C10_HitAvoidsUpstream ==
    [][Len(tasks') = Len(tasks) + 1 =>
        \A t \in {tasks'[Len(tasks')]} :
            (/\ \E k \in StoredFor(t.req) : stored[k].req = t.req
             /\ AnswersOf(Entry(t.req).res) # <<>>
             /\ \A a \in Range(AnswersOf(Entry(t.req).res)) : a.ttl > 0)
            => t.via = (IF time - Entry(t.req).at < MinTtl(Entry(t.req).res)
                        THEN "cache" ELSE "upstream")]_vars

\* C13: a datagram shorter than a DNS header does not stop the listener:
\* whatever the datagrams received so far, a short one among them, the
\* receive loop has not been taken down by forward and goes on receiving.
C13_ShortDatagramSurvived == run \notin {"panicked", "hung"}

\* C15: on a miss the upstream is handed the datagram as received, and what
\* the upstream returns for it, readable or not, becomes byte for byte what
\* the task sends to the client: no response makes the task give up.
C15_OpaqueForwarding ==
    \A i \in DOMAIN tasks :
        tasks[i].via = "upstream" =>
            /\ tasks[i].st = "proxy" => tasks[i].buf = tasks[i].req
            /\ tasks[i].st # "panicked"
            /\ tasks[i].st \in {"send", "sent"} =>
                \E k \in DOMAIN stored : /\ stored[k].req = tasks[i].req
                                         /\ stored[k].res = tasks[i].buf

\* C19: the receive loop goes on after a ConnectionRefused,
\* ConnectionAborted or ConnectionReset error of recv_from, run returns the
\* error of any other kind, and run returns in no other way; once it has
\* returned nothing is received.
C19_ListenerErrorPolicy ==
    [][/\ (run = "running" /\ run' \notin {"running", "panicked", "hung"}) =>
            /\ run' \in ErrorKinds
            /\ run' \notin {"ConnectionRefused", "ConnectionAborted",
                             "ConnectionReset"}
            /\ UNCHANGED <<inner, tasks, stored, last>>
       /\ run # "running" => UNCHANGED appVars]_vars

\* run has returned an error that is not a connection error, after it had
\* received and forwarded datagrams
C19_Witness ==
    /\ run \in ErrorKinds
    /\ tasks # <<>>

\* C20: when the upstream call of a request fails, its task ends there:
\* nothing is sent for it and the upstream is not called again, the cache
\* is as it was, and the receive loop and the other tasks are untouched; a
\* task goes from the upstream call to send_to only with a response.
C20_ProxyFailureDrops ==
    [][\A i \in DOMAIN tasks :
        /\ (tasks[i].st = "proxy" /\ tasks'[i].st = "failed") =>
                /\ UNCHANGED <<inner, stored, run, time, last>>
                /\ tasks' = [tasks EXCEPT ![i].st = "failed"]
        /\ (tasks[i].st = "proxy" /\ tasks'[i].st \in {"send", "sent"}) =>
                /\ Len(stored') = Len(stored) + 1
                /\ stored'[Len(stored')].res = tasks'[i].buf
        /\ tasks[i].st = "failed" => tasks'[i] = tasks[i]]_vars

\* the upstream call of one request has failed, the listener is running and
\* a request received later has been answered by the upstream and sent
C20_Witness ==
    /\ run = "running"
    /\ \E i, j \in DOMAIN tasks :
        /\ i < j
        /\ tasks[i].via = "upstream" /\ tasks[i].st = "failed"
        /\ tasks[i].buf = tasks[i].req
        /\ tasks[j].via = "upstream" /\ tasks[j].st = "sent"

\* C21: a datagram the dispatcher sends goes to the address its request was
\* received from, and a received datagram is replied to at most once,
\* however the tasks of requests from different clients interleave.
C21_ReplyAddressing ==
    [][\A i \in DOMAIN tasks :
        /\ tasks'[i].addr = tasks[i].addr
        /\ tasks'[i].req = tasks[i].req
        /\ tasks'[i].to # None <=> tasks'[i].st = "sent"
        /\ tasks'[i].st = "sent" => tasks'[i].to = Some(tasks[i].addr)
        /\ tasks[i].st = "sent" => tasks'[i] = tasks[i]
        /\ (tasks[i].st # "sent" /\ tasks'[i].st = "sent") => tasks[i].st = "send"]_vars

\* two requests from different clients are under way together and the one
\* received later has been replied to first
C21_Witness ==
    \E i, j \in DOMAIN tasks :
        /\ i < j
        /\ tasks[i].addr # tasks[j].addr
        /\ tasks[i].st = "send"
        /\ tasks[j].st = "sent"
        /\ tasks[j].to = Some(tasks[j].addr)

C23_UpstreamSelection ==
    /\ Len(constructed) = iter
    /\ \A k \in DOMAIN constructed :
        /\ constructed[k].entry = k
        /\ k < Len(constructed) => ~constructed[k].ok
    /\ chosen = None => \A k \in DOMAIN constructed : ~constructed[k].ok
    /\ (chosen # None /\ chosen[1].r = "ok") =>
            /\ constructed # <<>>
            /\ constructed[Len(constructed)].ok
            /\ chosen[1].entry = Len(constructed)
    /\ (chosen # None /\ chosen[1].r = "err") =>
            /\ Len(constructed) = Len(upstream_addr)
            /\ \A k \in DOMAIN constructed : ~constructed[k].ok
            /\ chosen[1].entry = Len(upstream_addr)

\* the second entry of three was chosen after the first had failed
C23_Witness ==
    /\ Len(upstream_addr) = 3
    /\ chosen = Some([r |-> "ok", entry |-> 2])
    /\ Len(constructed) = 2

\* C30: a call of get leaves the map as it was, whatever it returns; no
\* record ever leaves the map, and a record changes only in a call of set,
\* so an expired record stays until a set replaces it.
C30_GetReadOnly ==
    [][/\ last' # last => inner' = inner
       /\ \A k \in DOMAIN inner :
            /\ k \in DOMAIN inner'
            /\ inner'[k] # inner[k] => Len(stored') = Len(stored) + 1]_vars

\* the latest get has just returned None on a record that had expired, and
\* the record is in the map
C30_Witness ==
    /\ last # None
    /\ last[1].out = None
    /\ last[1].at = time
    /\ last[1].n = Len(stored)
    /\ Decodable(last[1].req)
    /\ \E i \in DOMAIN Key(last[1].req) :
        \E k \in {Key(last[1].req)[i].name} :
            /\ k \in DOMAIN inner
            /\ time - inner[k][2] >= ttl(inner[k][1])

-----------------------------------------------------------------------------
(* Properties of the UDP proxy *)

\* C17: the calls of UdpProxy::proxy that hold a permit and the permits
\* available always add up to 64, so at most 64 exchanges are under way; a
\* call that leaves by any path, success, an error of bind, connect, send
\* or recv, or cancellation, has given its permit back.
C17_PermitsConserved ==
    /\ permit + Holding = Permits
    /\ permit >= 0
    /\ Holding <= Permits

\* 64 exchanges are under way, at each of the awaits some, and one more call
\* waits for a permit
C17_Witness ==
    /\ permit = 0
    /\ waiting > 0
    /\ \A k \in DOMAIN Awaits : at[k] > 0

\* the loop of udp_resolve has returned TimedOut
GaveUp == resolved = Some([r |-> "err", len |-> 0, e |-> "TimedOut"])

\* C18: while no reply arrives the bootstrap resolver sends one and the same
\* datagram, at most 11 times, and waits 2 seconds after each send; it
\* returns TimedOut only after the eleventh send and its 2 seconds; a reply
\* or an error of recv ends the loop with that outcome and nothing more is
\* sent.
C18_RetryPolicy ==
    /\ \A i \in DOMAIN sends : sends[i] = send_buf
    /\ Len(sends) <= RetryLimit + 1
    /\ resolve = "send" => /\ Len(sends) = retry
                           /\ elapsed = WaitSecs * retry
    /\ resolve = "recv" => /\ Len(sends) = retry + 1
                           /\ elapsed = WaitSecs * retry + waited
    /\ resolve = "done" <=> resolved # None
    /\ GaveUp => /\ Len(sends) = RetryLimit + 1
                 /\ retry = RetryLimit + 1
                 /\ elapsed = WaitSecs * (RetryLimit + 1)
    /\ (resolved # None /\ ~GaveUp /\ resolved[1].e # "send") =>
            /\ Len(sends) = retry + 1
            /\ elapsed = WaitSecs * retry + waited

\* no reply arrived and the resolver gave up
C18_Witness == GaveUp /\ Len(sends) > 1

-----------------------------------------------------------------------------
(* Properties of the codec *)

\* C14: decoding a buffer of any length up to 512, cut short or with counts,
\* a data length or a pointer that lead past its data, never indexes the
\* buffer at or beyond its length: the attempt comes back to the caller as
\* an error value, it does not abort.
C14_DecodeInRange == codecOut # None => codecOut[1].r # "panic"

\* the record rec with its names lower-cased
LowerRec(rec) ==
    IF "host" \in DOMAIN rec
    THEN [rec EXCEPT !.domain = LowerAll(@), !.host = LowerAll(@)]
    ELSE [rec EXCEPT !.domain = LowerAll(@)]

\* the packet p with the names of its questions and answers lower-cased
Lowered(p) ==
    [p EXCEPT !.questions = [i \in DOMAIN @ |-> [@[i] EXCEPT !.name = LowerAll(@)]],
              !.answers = [i \in DOMAIN @ |-> LowerRec(@[i])]]

\* C16: a packet with records of the types A, AAAA, NS, CNAME and MX and
\* names of labels of at most 63 bytes, the root name and names with a
\* trailing dot among them, is encoded, and decoding the bytes gives the
\* packet back with its names lower-cased.
C16_RoundTrip ==
    codecOut # None =>
        /\ codecOut[1].enc.r = "ok"
        /\ codecOut[1].dec # None =>
            /\ codecOut[1].dec[1].r = "ok"
            /\ codecOut[1].dec[1].v = Lowered(codecIn)

\* C31 as stated: whatever buffer is decoded, the cursor DnsPacket::read
\* leaves, after the last step it took, is at most 512; a skipped record of
\* an unknown type and a name pointer are among the steps.
C31_CursorBound == codecOut # None => codecOut[1].pos <= BufLimit

\* C32 as stated: read_qname returns, with a name or with an error, on every
\* buffer, those whose pointers point to themselves or in a circle included.
C32_NameDecodingTerminates == codecOut # None => codecOut[1].r # "hang"

\* where the name that starts at p ends when no pointer is followed: at its
\* first pointer (ptr) or at its zero-length label
RECURSIVE EndOfName(_, _)
EndOfName(buf, p) ==
    IF buf[p + 1] >= 192 THEN [ptr |-> TRUE, at |-> p]
    ELSE IF buf[p + 1] = 0 THEN [ptr |-> FALSE, at |-> p]
    ELSE EndOfName(buf, p + 1 + buf[p + 1])

\* C33: after read_qname has succeeded the buffer's cursor is 2 bytes past
\* the first pointer of the name, however many jumps followed it, and for a
\* name without pointer it is at the byte after the zero-length label.
C33_OuterCursor ==
    (codecOut # None /\ codecOut[1].r = "ok") =>
        \A e \in {EndOfName(codecIn.buf, codecIn.pos)} :
            codecOut[1].pos = IF e.ptr THEN e.at + 2 ELSE e.at + 1

\* a name was read that starts with a label, goes on through a pointer and
\* from there through a second pointer
C33_Witness ==
    /\ codecOut # None
    /\ codecOut[1].r = "ok"
    /\ \E e \in {EndOfName(codecIn.buf, codecIn.pos)} :
        /\ e.ptr
        /\ e.at # codecIn.pos
        /\ \E t \in {(codecIn.buf[e.at + 1] - 192) * 256 + codecIn.buf[e.at + 2]} :
            codecIn.buf[t + 1] >= 192

\* C34: in a message whose first answer is named by a pointer to the
\* question's name and whose second answer is named by a pointer to that
\* pointer, both answers are decoded with the question's name, dotted and in
\* lower case.
C34_CompressedName ==
    \A n \in QNames :
        (codecIn = Compressed(Bytes(Query(1, n, "A"))) /\ codecOut # None) =>
            /\ codecOut[1].r = "ok"
            /\ Len(codecOut[1].v.questions) = 1
            /\ codecOut[1].v.questions[1].name = LowerAll(n)
            /\ Len(codecOut[1].v.answers) = 2
            /\ \A i \in 1..2 : codecOut[1].v.answers[i].domain = LowerAll(n)

\* a message with a two-label name in its question and both pointers in
\* its answers has been decoded
C34_Witness ==
    /\ codecIn = Compressed(Bytes(Query(1, NameA \o <<Dot>> \o NameB, "A")))
    /\ codecOut # None
    /\ codecOut[1].r = "ok"
    /\ codecOut[1].v.answers[2].domain = NameA \o <<Dot>> \o NameB

\* C35 as stated: write_qname succeeds on a name all of whose labels have
\* at most 63 bytes (the buffer has room for every name tried here) and
\* fails exactly when a label has more than 63.
C35_LabelLimit ==
    codecOut # None =>
        (codecOut[1].r = "ok" <=>
            \A i \in DOMAIN Split(codecIn) : Len(Split(codecIn)[i]) <= 63)

\* C36 as stated: in the bytes DnsPacket::write produced each header count
\* is the number of entries written in its section, records of unknown type
\* included: reading the bytes back succeeds, finds as many entries in each
\* section as the packet written holds, and ends at the last byte written.
C36_CountsMatchRecords ==
    (codecOut # None /\ codecOut[1].enc.r = "ok" /\ codecOut[1].dec # None) =>
        \A d \in {codecOut[1].dec[1]} :
            /\ d.r = "ok"
            /\ d.pos = Len(codecOut[1].enc.bytes)
            /\ Len(d.v.questions) = Len(codecIn.questions)
            /\ Len(d.v.answers) = Len(codecIn.answers)
            /\ Len(d.v.authorities) = Len(codecIn.authorities)
            /\ Len(d.v.resources) = Len(codecIn.resources)

\* C37: a header with an opcode of 0..15 and one of the six named result
\* codes is written as 12 bytes, and reading them gives the same header,
\* every flag, the opcode, the code, the id and the four counts; a header
\* read with a result code of 6..15 has the code NoError (0) and is
\* otherwise what its other bits say.
C37_HeaderRoundTrip ==
    codecOut # None =>
        /\ codecOut[1].enc.r = "ok"
        /\ Len(codecOut[1].enc.bytes) = 12
        /\ codecOut[1].dec # None =>
            /\ codecOut[1].dec[1].r = "ok"
            /\ codecOut[1].dec[1].pos = 12
            /\ codecOut[1].dec[1].v = codecIn

\* a header with every flag set, the opcode 15 and the code Refused came
\* back as it was written
C37_Witness ==
    /\ codecOut # None
    /\ codecOut[1].dec # None
    /\ codecOut[1].foreign = 0
    /\ codecOut[1].dec[1].v = codecIn
    /\ codecIn.opcode = 15
    /\ codecIn.rescode = 5
    /\ codecIn.response /\ codecIn.recursion_desired /\ codecIn.truncated_message
    /\ codecIn.authoritative_answer /\ codecIn.checking_disabled
    /\ codecIn.authed_data /\ codecIn.z /\ codecIn.recursion_available
    /\ codecIn.id = 65535

\* C38 as stated: the bootstrap resolver sends at most 10 datagrams for one
\* resolution.
C38_TenAttempts == Len(sends) <= RetryLimit

\* C38: the bootstrap resolver sends at most 11 datagrams for one resolution,
\* the first and 10 retransmissions, and waits at most 2 seconds after each,
\* at most 22 seconds in all.
C38_AttemptBound ==
    /\ Len(sends) <= RetryLimit + 1
    /\ waited <= WaitSecs
    /\ elapsed <= WaitSecs * Len(sends)
    /\ elapsed <= WaitSecs * (RetryLimit + 1)

\* the eleventh datagram is sent and its wait is under way
C38_Witness ==
    /\ Len(sends) = RetryLimit + 1
    /\ resolve = "recv"
    /\ waited > 0

\* C39: replies that are lost do not use up the permits for good: a call of
\* UdpProxy::proxy that waits for a permit gets one in the end and goes on to
\* its exchange, however many earlier calls never get their reply.
C39_ProgressUnderLoss == (waiting > 0) ~> (waiting = 0)

====
